---- MODULE Spec2Model ----
(***************************************************************************)
(* Model of the sensitive-data tokenization engine (DataMasker,            *)
(* src/src/utils/masking.ts): the default rule set, dictionary masking,    *)
(* the per-session mapping store, unmask, clearSession, getSessionStats     *)
(* and maskObject.                                                          *)
(*                                                                          *)
(* A text is a sequence of one-character strings.  The regular expressions *)
(* of the default rules are modelled by matchers that return, for a start  *)
(* position, the position after the match the JavaScript engine finds there *)
(* (greedy quantifiers, backtracking in priority order), or 0.              *)
(***************************************************************************)
EXTENDS Integers, Sequences, FiniteSets, TLC

\* ------------------------------------------------------------------ bounds

\* Random suffixes a single mask call may draw.
MaxRandom == 2
\* Reversible substitutions the sessions may hold together in the explored
\* runs, counted since each session's last clear.
MaxEntries == 2

\* --------------------------------------------------------------- characters

\* The grave accent.  A string cannot hold it alone: it is written with the
\* apostrophe after it, and the two stand for the one character.
Backtick == "`'"

Digit == {"0", "1", "2", "3", "4", "5", "6", "7", "8", "9"}

LowerSeq == <<"a", "b", "c", "d", "e", "f", "g", "h", "i", "j", "k", "l", "m",
              "n", "o", "p", "q", "r", "s", "t", "u", "v", "w", "x", "y", "z">>

UpperSeq == <<"A", "B", "C", "D", "E", "F", "G", "H", "I", "J", "K", "L", "M",
              "N", "O", "P", "Q", "R", "S", "T", "U", "V", "W", "X", "Y", "Z">>

Lower == {LowerSeq[k] : k \in 1..26}

Upper == {UpperSeq[k] : k \in 1..26}

Letter == Lower \cup Upper

\* The 'i' flag: characters compare by their lower-case form.
ToLower(c) == IF c \in Upper THEN LowerSeq[CHOOSE k \in 1..26 : UpperSeq[k] = c] ELSE c

\* \s
WhiteSpace == {" ", "\t", "\n"}

\* [\d,]
AmountChar == Digit \cup {","}

\* [a-zA-Z0-9._%+-]
EmailLocalChar == Letter \cup Digit \cup {".", "_", "%", "+", "-"}

\* [a-zA-Z0-9.-]
EmailDomainChar == Letter \cup Digit \cup {".", "-"}

\* [a-zA-Z0-9_-]
CampaignWordChar == Letter \cup Digit \cup {"_", "-"}

\* ------------------------------------------------------------ text helpers

At(text, i) == IF i >= 1 /\ i <= Len(text) THEN text[i] ELSE ""

RECURSIVE RunLen(_, _, _)
\* Number of consecutive characters of class S in text from position i on.
RunLen(text, i, S) ==
    IF i >= 1 /\ i <= Len(text) /\ text[i] \in S THEN 1 + RunLen(text, i + 1, S) ELSE 0

Min(a, b) == IF a < b THEN a ELSE b

\* lit occurs in text at position i (ci: ignoring case).
LitAt(text, i, lit, ci) ==
    /\ i >= 1
    /\ i + Len(lit) - 1 <= Len(text)
    /\ \A k \in 1..Len(lit) :
          IF ci THEN ToLower(text[i + k - 1]) = ToLower(lit[k])
                ELSE text[i + k - 1] = lit[k]

RECURSIVE FindLit(_, _, _, _)
\* Leftmost position >= pos where lit occurs in text, or 0.
FindLit(text, pos, lit, ci) ==
    IF pos + Len(lit) - 1 > Len(text) THEN 0
    ELSE IF LitAt(text, pos, lit, ci) THEN pos
    ELSE FindLit(text, pos + 1, lit, ci)

RECURSIVE CountLit(_, _, _)
\* Number of non-overlapping occurrences of lit in text from pos on,
\* scanning from the left as a global regular expression does.
CountLit(text, pos, lit) ==
    LET p == FindLit(text, pos, lit, FALSE)
    IN  IF Len(lit) = 0 \/ p = 0 THEN 0 ELSE 1 + CountLit(text, p + Len(lit), lit)

Contains(text, lit) == FindLit(text, 1, lit, FALSE) # 0

\* ------------------------------------------------------- rule patterns

\* /¥[\d,]+(?:\.\d{2})?/ and /\$[\d,]+(?:\.\d{2})?/ at position i: the position
\* after the match, or 0.  The class [\d,] holds no ".", so the greedy run is
\* maximal and the optional group is taken whenever ".dd" follows it.
CurrencyMatch(sym, text, i) ==
    IF At(text, i) # sym THEN 0
    ELSE LET r == RunLen(text, i + 1, AmountChar)
             j == i + 1 + r
         IN  IF r = 0 THEN 0
             ELSE IF At(text, j) = "." /\ At(text, j + 1) \in Digit
                                    /\ At(text, j + 2) \in Digit
                  THEN j + 3
                  ELSE j

\* /[a-zA-Z0-9._%+-]+@[a-zA-Z0-9.-]+\.[a-zA-Z]{2,}/ at position i.  The local
\* part must run up to the "@"; the greedy domain part backs off to the last
\* "." of its run that at least two letters follow.
EmailMatch(text, i) ==
    LET r  == RunLen(text, i, EmailLocalChar)
        at == i + r
        d  == RunLen(text, at + 1, EmailDomainChar)
        dots == {p \in (at + 2)..(at + d) :
                    /\ text[p] = "."
                    /\ At(text, p + 1) \in Letter
                    /\ At(text, p + 2) \in Letter}
    IN  IF r = 0 \/ At(text, at) # "@" \/ dots = {} THEN 0
        ELSE LET p == CHOOSE q \in dots : \A o \in dots : o <= q
             IN  p + 1 + RunLen(text, p + 1, Letter)

\* Length of the prefix (?:\+?81|0) at position i, or 0.
PhonePrefixLen(text, i) ==
    IF At(text, i) = "+" /\ At(text, i + 1) = "8" /\ At(text, i + 2) = "1" THEN 3
    ELSE IF At(text, i) = "8" /\ At(text, i + 1) = "1" THEN 2
    ELSE IF At(text, i) = "0" THEN 1
    ELSE 0

PhoneSep == {"-"} \cup WhiteSpace

\* Does \d{a}[-\s]{s1}\d{b}[-\s]{s2}\d{4} match at position j?
PhoneBodyFits(text, j, a, s1, b, s2) ==
    /\ \A k \in 0..(a - 1) : At(text, j + k) \in Digit
    /\ s1 = 1 => At(text, j + a) \in PhoneSep
    /\ \A k \in 0..(b - 1) : At(text, j + a + s1 + k) \in Digit
    /\ s2 = 1 => At(text, j + a + s1 + b) \in PhoneSep
    /\ \A k \in 0..3 : At(text, j + a + s1 + b + s2 + k) \in Digit

\* The order in which the backtracking engine tries the quantifiers of
\* \d{1,4}[-\s]?\d{1,4}[-\s]?\d{4}: each greedy, the leftmost deciding first.
PhoneRank(c) == ((c[1] * 2 + c[2]) * 5 + c[3]) * 2 + c[4]

\* /(?:\+?81|0)\d{1,4}[-\s]?\d{1,4}[-\s]?\d{4}/ at position i.
PhoneMatch(text, i) ==
    LET pl == PhonePrefixLen(text, i)
        j  == i + pl
        fits == {c \in (1..4) \X {0, 1} \X (1..4) \X {0, 1} :
                    PhoneBodyFits(text, j, c[1], c[2], c[3], c[4])}
    IN  IF pl = 0 \/ At(text, j) \notin Digit \/ fits = {} THEN 0
        ELSE LET c == CHOOSE x \in fits : \A y \in fits : PhoneRank(y) <= PhoneRank(x)
             IN  j + c[1] + c[2] + c[3] + c[4] + 4

Quote == {"\"", "'"}

\* The rest of the campaign pattern after "campaign", with the optional
\* separator taken (sep = 1) or not and the optional "name" taken or not:
\* [:\s]* then ["']? then ([a-zA-Z0-9_-]+) then ["']?.  0 when it does not fit.
CampaignTail(text, j, sep, name) ==
    LET j1 == j + sep
        j2 == j1 + 4 * name
        j3 == j2 + RunLen(text, j2, {":"} \cup WhiteSpace)
        j4 == IF At(text, j3) \in Quote THEN j3 + 1 ELSE j3
        w  == RunLen(text, j4, CampaignWordChar)
        j5 == j4 + w
    IN  IF \/ (sep = 1 /\ At(text, j) \notin {"_", "-"})
           \/ (name = 1 /\ ~LitAt(text, j1, <<"n", "a", "m", "e">>, TRUE))
           \/ w = 0
        THEN 0
        ELSE IF At(text, j5) \in Quote THEN j5 + 1 ELSE j5

\* /campaign[_-]?(?:name)?[:\s]*["']?([a-zA-Z0-9_-]+)["']?/gi at position i:
\* the first of the four ways to take the two optional parts that fits.
CampaignMatch(text, i) ==
    IF ~LitAt(text, i, <<"c", "a", "m", "p", "a", "i", "g", "n">>, TRUE) THEN 0
    ELSE LET j == i + 8
         IN  IF CampaignTail(text, j, 1, 1) # 0 THEN CampaignTail(text, j, 1, 1)
             ELSE IF CampaignTail(text, j, 1, 0) # 0 THEN CampaignTail(text, j, 1, 0)
             ELSE IF CampaignTail(text, j, 0, 1) # 0 THEN CampaignTail(text, j, 0, 1)
             ELSE CampaignTail(text, j, 0, 0)

\* \d{1,3}\. at position i: the position after the dot, or 0.
IpGroupDot(text, i) ==
    LET r == RunLen(text, i, Digit)
    IN  IF i # 0 /\ r >= 1 /\ r <= 3 /\ At(text, i + r) = "." THEN i + r + 1 ELSE 0

\* /\d{1,3}\.\d{1,3}\.\d{1,3}\.\d{1,3}/ at position i.
IpMatch(text, i) ==
    LET g3 == IpGroupDot(text, IpGroupDot(text, IpGroupDot(text, i)))
        r  == Min(RunLen(text, g3, Digit), 3)
    IN  IF g3 = 0 \/ r = 0 THEN 0 ELSE g3 + r

\* ------------------------------------------------------------ the rule set

\* Token prefixes and fixed literals of the default rules.
PrefixAmount == <<"[", "A", "M", "O", "U", "N", "T", "_">>

PrefixAmountUsd == <<"[", "A", "M", "O", "U", "N", "T", "_", "U", "S", "D", "_">>

PrefixCampaign == <<"[", "C", "A", "M", "P", "A", "I", "G", "N", "_">>

EmailMasked == <<"[", "E", "M", "A", "I", "L", "_", "M", "A", "S", "K", "E", "D", "]">>

PhoneMasked == <<"[", "P", "H", "O", "N", "E", "_", "M", "A", "S", "K", "E", "D", "]">>

IpMasked == <<"[", "I", "P", "_", "M", "A", "S", "K", "E", "D", "]">>

\* this.rules after loadDefaultRules(), in declared order.
DefaultRules == <<
    [name |-> "currency_jpy", category |-> "financial", reversible |-> TRUE,
     replacementPrefix |-> PrefixAmount, replacement |-> <<>>],
    [name |-> "currency_usd", category |-> "financial", reversible |-> TRUE,
     replacementPrefix |-> PrefixAmountUsd, replacement |-> <<>>],
    [name |-> "email", category |-> "pii", reversible |-> FALSE,
     replacementPrefix |-> <<>>, replacement |-> EmailMasked],
    [name |-> "phone_jp", category |-> "pii", reversible |-> FALSE,
     replacementPrefix |-> <<>>, replacement |-> PhoneMasked],
    [name |-> "campaign_name", category |-> "identifier", reversible |-> TRUE,
     replacementPrefix |-> PrefixCampaign, replacement |-> <<>>],
    [name |-> "ip_address", category |-> "pii", reversible |-> FALSE,
     replacementPrefix |-> <<>>, replacement |-> IpMasked] >>

\* The names of the pattern rules, in declared order.
RuleNames == {DefaultRules[k].name : k \in 1..Len(DefaultRules)}

\* rule.pattern at position i of text: the position after the match, or 0.
PatternMatch(ruleName, text, i) ==
    CASE ruleName = "currency_jpy"  -> CurrencyMatch("¥", text, i)
      [] ruleName = "currency_usd"  -> CurrencyMatch("$", text, i)
      [] ruleName = "email"         -> EmailMatch(text, i)
      [] ruleName = "phone_jp"      -> PhoneMatch(text, i)
      [] ruleName = "campaign_name" -> CampaignMatch(text, i)
      [] ruleName = "ip_address"    -> IpMatch(text, i)
      [] OTHER                      -> 0

RECURSIVE FindMatch(_, _, _)
\* The leftmost position >= pos at which the rule's pattern matches, or 0.
FindMatch(ruleName, text, pos) ==
    IF pos > Len(text) THEN 0
    ELSE IF PatternMatch(ruleName, text, pos) # 0 THEN pos
    ELSE FindMatch(ruleName, text, pos + 1)

\* ------------------------------------------------------ tokens and escaping

\* The outcomes of crypto.randomBytes(4).toString('hex') the model draws from:
\* eight lower-case hexadecimal digits.  One suffix holds letters and digits,
\* one holds decimal digits only.
HexSuffixes == { <<"a", "1", "b", "2", "c", "3", "d", "4">>,
                 <<"0", "1", "2", "3", "4", "5", "6", "7">> }

\* generateToken(prefix) when randomBytes yields randomPart.
GenerateToken(prefix, randomPart) == prefix \o randomPart \o <<"]">>

\* The characters escapeRegex escapes: . * + ? ^ $ { } ( ) | [ ] \
RegexSpecial == {".", "*", "+", "?", "^", "$", "{", "}", "(", ")", "|", "[", "]", "\\"}

RECURSIVE EscapeRegexFrom(_, _)
EscapeRegexFrom(str, k) ==
    IF k > Len(str) THEN <<>>
    ELSE (IF str[k] \in RegexSpecial THEN <<"\\", str[k]>> ELSE <<str[k]>>)
         \o EscapeRegexFrom(str, k + 1)

\* escapeRegex(str): str.replace(/[.*+?^${}()|[\]\\]/g, '\\$&').
EscapeRegex(str) == EscapeRegexFrom(str, 1)

RECURSIVE PatternLiteralFrom(_, _)
PatternLiteralFrom(pattern, k) ==
    IF k > Len(pattern) THEN <<>>
    ELSE IF pattern[k] = "\\" /\ k < Len(pattern)
         THEN <<pattern[k + 1]>> \o PatternLiteralFrom(pattern, k + 2)
         ELSE <<pattern[k]>> \o PatternLiteralFrom(pattern, k + 1)

\* The string a pattern built by escapeRegex matches: new RegExp(pattern) reads
\* a backslash followed by a character as that character, and every other
\* character such a pattern holds as itself.
PatternLiteral(pattern) == PatternLiteralFrom(pattern, 1)

RECURSIVE ExpandReplacementFrom(_, _, _, _, _)
ExpandReplacementFrom(repl, k, matched, pre, post) ==
    IF k > Len(repl) THEN <<>>
    ELSE IF repl[k] = "$" /\ At(repl, k + 1) = "$"
         THEN <<"$">> \o ExpandReplacementFrom(repl, k + 2, matched, pre, post)
    ELSE IF repl[k] = "$" /\ At(repl, k + 1) = "&"
         THEN matched \o ExpandReplacementFrom(repl, k + 2, matched, pre, post)
    ELSE IF repl[k] = "$" /\ At(repl, k + 1) = Backtick
         THEN pre \o ExpandReplacementFrom(repl, k + 2, matched, pre, post)
    ELSE IF repl[k] = "$" /\ At(repl, k + 1) = "'"
         THEN post \o ExpandReplacementFrom(repl, k + 2, matched, pre, post)
    ELSE <<repl[k]>> \o ExpandReplacementFrom(repl, k + 1, matched, pre, post)

\* What String.prototype.replace inserts for a replacement given as a string:
\* $$ is "$", $& the match, $ with a backtick the text before it, $ with an
\* apostrophe the text after it.  The
\* patterns of unmask have no capture group, so $1..$99 stay as written.
ExpandReplacement(repl, matched, pre, post) ==
    ExpandReplacementFrom(repl, 1, matched, pre, post)

RECURSIVE ReplaceAllLit(_, _, _, _)
\* text.replace(new RegExp(escaped lit, 'g'), repl), from position pos on.
ReplaceAllLit(text, pos, lit, repl) ==
    LET p == FindLit(text, pos, lit, FALSE)
    IN  IF Len(lit) = 0 \/ p = 0 THEN SubSeq(text, pos, Len(text))
        ELSE SubSeq(text, pos, p - 1)
             \o ExpandReplacement(repl, lit, SubSeq(text, 1, p - 1),
                                  SubSeq(text, p + Len(lit), Len(text)))
             \o ReplaceAllLit(text, p + Len(lit), lit, repl)

\* ------------------------------------------------------ the mapping store

\* A session's Map<string, MaskMapping>, in insertion order.  The key of an
\* entry is its field masked (mappings.set(token, {..., masked: token, ...})).
HasToken(mappings, token) == \E i \in 1..Len(mappings) : mappings[i].masked = token

\* Map.prototype.set: a new key is appended, an existing key keeps its place
\* and takes the new value.
MapSet(mappings, mapping) ==
    IF HasToken(mappings, mapping.masked)
    THEN [i \in 1..Len(mappings) |->
             IF mappings[i].masked = mapping.masked THEN mapping ELSE mappings[i]]
    ELSE Append(mappings, mapping)

Tokens(mappings) == {mappings[i].masked : i \in 1..Len(mappings)}

\* ------------------------------------------------------------------- mask

\* new Date(): the clock is left out, every reading is one value.
NewDate == "date"

\* The k-th random suffix a call draws.
Draw(rnd, k) == rnd[Min(k, Len(rnd))]

\* RuleCallback with maskCount++ moved behind the early return of the
\* non-reversible branch: only token substitutions are counted.
RuleCallbackCountsTokens(rule, match, acc, rnd) ==
    IF ~rule.reversible
    THEN [acc EXCEPT !.masked = @ \o rule.replacement,
                     !.events = Append(@, [rule |-> rule.name, original |-> match,
                                           replacement |-> rule.replacement,
                                           reversible |-> FALSE])]
    ELSE LET token == GenerateToken(rule.replacementPrefix, Draw(rnd, acc.used + 1))
         IN  [acc EXCEPT !.masked = @ \o token,
                         !.maskCount = @ + 1,
                         !.used = @ + 1,
                         !.mappings = MapSet(@, [original |-> match, masked |-> token,
                                                 category |-> rule.category,
                                                 rule |-> rule.name,
                                                 createdAt |-> NewDate]),
                         !.events = Append(@, [rule |-> rule.name, original |-> match,
                                               replacement |-> token,
                                               reversible |-> TRUE])]

\* RuleCallback with the entry stored before the reversible flag is looked at:
\* a non-reversible match is recorded under its fixed literal.
RuleCallbackStoresAll(rule, match, acc, rnd) ==
    LET token == IF rule.reversible
                 THEN GenerateToken(rule.replacementPrefix, Draw(rnd, acc.used + 1))
                 ELSE rule.replacement
    IN  [acc EXCEPT !.masked = @ \o token,
                    !.maskCount = @ + 1,
                    !.used = @ + (IF rule.reversible THEN 1 ELSE 0),
                    !.mappings = MapSet(@, [original |-> match, masked |-> token,
                                            category |-> rule.category,
                                            rule |-> rule.name,
                                            createdAt |-> NewDate]),
                    !.events = Append(@, [rule |-> rule.name, original |-> match,
                                          replacement |-> token,
                                          reversible |-> rule.reversible])]

\* The callback of masked.replace(rule.pattern, ...) for one match: the
\* accumulator holds the text built so far, maskCount, the session's mappings,
\* the number of suffixes drawn and the substitutions made.
RuleCallback(rule, match, acc, rnd) ==
    IF ~rule.reversible
    THEN [acc EXCEPT !.masked = @ \o rule.replacement,
                     !.maskCount = @ + 1,
                     !.events = Append(@, [rule |-> rule.name, original |-> match,
                                           replacement |-> rule.replacement,
                                           reversible |-> FALSE])]
    ELSE LET token == GenerateToken(rule.replacementPrefix, Draw(rnd, acc.used + 1))
         IN  [acc EXCEPT !.masked = @ \o token,
                         !.maskCount = @ + 1,
                         !.used = @ + 1,
                         !.mappings = MapSet(@, [original |-> match, masked |-> token,
                                                 category |-> rule.category,
                                                 rule |-> rule.name,
                                                 createdAt |-> NewDate]),
                         !.events = Append(@, [rule |-> rule.name, original |-> match,
                                               replacement |-> token,
                                               reversible |-> TRUE])]

RECURSIVE ReplaceRule(_, _, _, _, _)
\* One match of the rule's pattern at p..e-1, the text before it since pos
\* kept as it is, and the scan going on behind the match.
ReplaceMatch(rule, text, pos, p, e, acc, rnd) ==
    ReplaceRule(rule, text, e,
                RuleCallback(rule, SubSeq(text, p, e - 1),
                             [acc EXCEPT !.masked = @ \o SubSeq(text, pos, p - 1)], rnd),
                rnd)

\* The scan from pos on when the leftmost match starts at p (0: there is none).
ReplaceAt(rule, text, pos, p, acc, rnd) ==
    IF p = 0 THEN [acc EXCEPT !.masked = @ \o SubSeq(text, pos, Len(text))]
    ELSE ReplaceMatch(rule, text, pos, p, PatternMatch(rule.name, text, p), acc, rnd)

\* masked.replace(rule.pattern, callback) on text from position pos on: every
\* non-overlapping match, left to right; the text put in is not scanned again.
ReplaceRule(rule, text, pos, acc, rnd) ==
    ReplaceAt(rule, text, pos, FindMatch(rule.name, text, pos), acc, rnd)

RECURSIVE ApplyRules(_, _, _, _)
\* for (const rule of this.rules), from the k-th rule on.
ApplyRules(rules, k, acc, rnd) ==
    IF k > Len(rules) THEN acc
    ELSE ApplyRules(rules, k + 1,
                    ReplaceRule(rules[k], acc.masked, 1, [acc EXCEPT !.masked = <<>>], rnd),
                    rnd)

\* The callback of the dictionary replace for one occurrence of a term.
TermCallback(dict, match, acc, rnd) ==
    LET token == GenerateToken(dict.prefix, Draw(rnd, acc.used + 1))
        source == "dictionary:" \o dict.name
    IN  [acc EXCEPT !.masked = @ \o token,
                    !.maskCount = @ + 1,
                    !.used = @ + 1,
                    !.mappings = MapSet(@, [original |-> match, masked |-> token,
                                            category |-> dict.category,
                                            rule |-> source,
                                            createdAt |-> NewDate]),
                    !.events = Append(@, [rule |-> source, original |-> match,
                                          replacement |-> token,
                                          reversible |-> TRUE])]

RECURSIVE ReplaceLit(_, _, _, _, _, _)
\* The scan from pos on when the leftmost occurrence of lit starts at p.
ReplaceLitAt(dict, lit, text, pos, p, acc, rnd) ==
    IF Len(lit) = 0 \/ p = 0
    THEN [acc EXCEPT !.masked = @ \o SubSeq(text, pos, Len(text))]
    ELSE ReplaceLit(dict, lit, text, p + Len(lit),
                    TermCallback(dict, SubSeq(text, p, p + Len(lit) - 1),
                                 [acc EXCEPT !.masked = @ \o SubSeq(text, pos, p - 1)], rnd),
                    rnd)

\* masked.replace(regex, callback) for a regex that matches lit, any case.
ReplaceLit(dict, lit, text, pos, acc, rnd) ==
    ReplaceLitAt(dict, lit, text, pos, FindLit(text, pos, lit, TRUE), acc, rnd)

\* masked.replace(new RegExp(this.escapeRegex(term), 'gi'), callback).
ReplaceTerm(dict, term, text, acc, rnd) ==
    ReplaceLit(dict, PatternLiteral(EscapeRegex(term)), text, 1, acc, rnd)

RECURSIVE ApplyTerms(_, _, _, _)
\* for (const term of dictConfig.terms), from the k-th term on.
ApplyTerms(dict, k, acc, rnd) ==
    IF k > Len(dict.terms) THEN acc
    ELSE ApplyTerms(dict, k + 1,
                    ReplaceTerm(dict, dict.terms[k], acc.masked,
                                [acc EXCEPT !.masked = <<>>], rnd),
                    rnd)

RECURSIVE ApplyDictionaries(_, _, _, _)
\* for (const [dictName, dictConfig] of this.dictionaries), from the k-th on.
ApplyDictionaries(dicts, k, acc, rnd) ==
    IF k > Len(dicts) THEN acc
    ELSE ApplyDictionaries(dicts, k + 1, ApplyTerms(dicts[k], 1, acc, rnd), rnd)

\* mask(sessionId, data) on the session's mappings (empty for a new session):
\* the rules in declared order, then the dictionaries.
MaskText(dicts, mappings, data, rnd) ==
    ApplyDictionaries(dicts, 1,
        ApplyRules(DefaultRules, 1,
                   [masked |-> data, maskCount |-> 0, mappings |-> mappings,
                    used |-> 0, events |-> <<>>],
                   rnd),
        rnd)

\* ----------------------------------------------------------------- unmask

\* One turn of the loop of unmask: count occurrences of the token (lit) were
\* found in the text so far.
UnmaskToken(lit, count, original, acc) ==
    IF count > 0
    THEN [unmasked |-> ReplaceAllLit(acc.unmasked, 1, lit, original),
          unmaskCount |-> acc.unmaskCount + count]
    ELSE acc

\* (unmasked.match(regex) || []).length and the replace, for the regex built
\* from the token.
UnmaskEntry(lit, original, acc) ==
    UnmaskToken(lit, CountLit(acc.unmasked, 1, lit), original, acc)

RECURSIVE UnmaskFrom(_, _, _)
\* for (const [token, mapping] of mappings), from the k-th entry on.
UnmaskFrom(mappings, k, acc) ==
    IF k > Len(mappings) THEN acc
    ELSE UnmaskFrom(mappings, k + 1,
                    UnmaskEntry(PatternLiteral(EscapeRegex(mappings[k].masked)),
                                mappings[k].original, acc))

\* unmask(sessionId, data) when the session has the given mappings.
UnmaskText(mappings, data) ==
    UnmaskFrom(mappings, 1, [unmasked |-> data, unmaskCount |-> 0])

\* ------------------------------------------------------------- statistics

\* counts[key] = 1: the count already held is dropped.
IncrementSetsOne(counts, key) ==
    [k \in DOMAIN counts \cup {key} |-> IF k = key THEN 1 ELSE counts[k]]

\* counts[key] = (counts[key] ?? 0) + 1
Increment(counts, key) ==
    [k \in DOMAIN counts \cup {key} |->
        IF k = key THEN (IF key \in DOMAIN counts THEN counts[key] ELSE 0) + 1
        ELSE counts[k]]

NoCounts == [k \in {} |-> 0]

RECURSIVE CountBy(_, _, _, _)
\* for (const mapping of mappings.values()), from the k-th entry on.
CountBy(mappings, k, byCategory, byRule) ==
    IF k > Len(mappings)
    THEN [totalMappings |-> Len(mappings), byCategory |-> byCategory, byRule |-> byRule]
    ELSE CountBy(mappings, k + 1, Increment(byCategory, mappings[k].category),
                 Increment(byRule, mappings[k].rule))

\* getSessionStats(sessionId) when the session has the given mappings.
StatsOf(mappings) == CountBy(mappings, 1, NoCounts, NoCounts)

\* getSessionStats(sessionId) when the session has no store.
EmptyStats == [totalMappings |-> 0, byCategory |-> NoCounts, byRule |-> NoCounts]

\* ------------------------------------------------------------- maskObject

\* A JSON value: kind is "string" (text), "number" (num), "boolean" (num is 1
\* for true), "null", "array" (elems: the values) or "object" (elems: records
\* of a key and a value, in Object.entries order).
StringValue(text) == [kind |-> "string", text |-> text, num |-> 0, elems |-> <<>>]

NumberValue(n) == [kind |-> "number", text |-> <<>>, num |-> n, elems |-> <<>>]

BooleanValue(b) == [kind |-> "boolean", text |-> <<>>, num |-> IF b THEN 1 ELSE 0, elems |-> <<>>]

NullValue == [kind |-> "null", text |-> <<>>, num |-> 0, elems |-> <<>>]

ArrayValue(elems) == [kind |-> "array", text |-> <<>>, num |-> 0, elems |-> elems]

ObjectValue(fields) == [kind |-> "object", text |-> <<>>, num |-> 0, elems |-> fields]

DigitSeq == <<"0", "1", "2", "3", "4", "5", "6", "7", "8", "9">>

RECURSIVE NatToText(_)
NatToText(n) ==
    IF n < 10 THEN <<DigitSeq[n + 1]>>
    ELSE NatToText(n \div 10) \o <<DigitSeq[(n % 10) + 1]>>

\* value.toString() of an integer number.
NumberToString(n) == IF n < 0 THEN <<"-">> \o NatToText(-n) ELSE NatToText(n)

\* this.sessionMappings as a traversal leaves it, starting from no session at
\* all: st holds the stores of the sessions its mask calls used, the number of
\* suffixes drawn, per mask call the session id and the reversible
\* substitutions made, and the number of generateSessionId() calls.
StoreOf(st, sid) == IF sid \in DOMAIN st.stores THEN st.stores[sid] ELSE <<>>

\* The sessionId parameter left out by the caller.
Undefined == "undefined"

\* sessionId ?? this.generateSessionId(), generateSessionId() returning gen.
SidOfFresh(sessionId, gen) == gen

SidOf(sessionId, gen) == IF sessionId = Undefined THEN gen ELSE sessionId

\* The traversal after the evaluation of sessionId ?? this.generateSessionId().
AfterSid(sessionId, st) ==
    IF sessionId = Undefined THEN [st EXCEPT !.generated = @ + 1] ELSE st

\* The traversal after a this.mask(sid, ...) call that returned r.
AfterMask(r, sid, st) ==
    [st EXCEPT !.stores = [s \in DOMAIN st.stores \cup {sid} |->
                              IF s = sid THEN r.mappings ELSE st.stores[s]],
               !.used = @ + r.used,
               !.calls = Append(@, [sid |-> sid, used |-> r.used])]

\* this.mask(sid, text) inside a traversal that has drawn st.used suffixes.
MaskLeaf(dicts, text, sid, st, rnd) ==
    MaskText(dicts, StoreOf(st, sid), text, [k \in 1..Len(rnd) |-> Draw(rnd, st.used + k)])

\* A string leaf, r being what mask returned for it.
StringLeaf(r, sid, st) == [value |-> StringValue(r.masked), st |-> AfterMask(r, sid, st)]

\* A number leaf that always comes back as the string mask returned.
NumberLeafAsString(value, strValue, r, sid, st) ==
    [value |-> StringValue(r.masked), st |-> AfterMask(r, sid, st)]

\* A number leaf: the masked string if masking changed strValue, the number
\* itself otherwise.
NumberLeaf(value, strValue, r, sid, st) ==
    [value |-> IF r.masked # strValue THEN StringValue(r.masked) ELSE value,
     st |-> AfterMask(r, sid, st)]

\* An array or object whose elements came out as r.elems.
Container(value, r) == [value |-> [value EXCEPT !.elems = r.elems], st |-> r.st]

\* The key whose assignment sets the prototype of an object.
ProtoKey == "__proto__"

\* result[key] = value on the object literal result: the assignment to
\* __proto__ goes to the setter inherited from Object.prototype, which sets
\* the prototype when value is an object and does nothing otherwise; the
\* object gets no own property either way.
SetField(result, key, value) ==
    IF key = ProtoKey THEN result ELSE Append(result, [key |-> key, value |-> value])

RECURSIVE MaskValue(_, _, _, _, _, _)
RECURSIVE MaskElems(_, _, _, _, _, _, _, _)
\* The k-th element (for an object: field) masked to r.value.
MaskedElem(dicts, elems, k, isField, out, sid, r, rnd, gen) ==
    MaskElems(dicts, elems, k + 1,
              IF isField THEN SetField(out, elems[k].key, r.value) ELSE Append(out, r.value),
              sid, r.st, rnd, gen)

\* value.map(maskValue) for an array and the loop over Object.entries(obj) for
\* an object, from the k-th element on; out holds the elements built so far.
MaskElems(dicts, elems, k, out, sid, st, rnd, gen) ==
    IF k > Len(elems) THEN [elems |-> out, st |-> st]
    ELSE IF "key" \in DOMAIN elems[k]
         THEN MaskedElem(dicts, elems, k, TRUE, out, sid,
                         MaskValue(dicts, elems[k].value, sid, st, rnd, gen), rnd, gen)
         ELSE MaskedElem(dicts, elems, k, FALSE, out, sid,
                         MaskValue(dicts, elems[k], sid, st, rnd, gen), rnd, gen)

\* maskObject(obj, sessionId) inside a traversal: sid is fixed first, then the
\* fields are masked under it.
MaskObjectCall(dicts, obj, sessionId, st, rnd, gen) ==
    Container(obj, MaskElems(dicts, obj.elems, 1, <<>>, SidOf(sessionId, gen),
                             AfterSid(sessionId, st), rnd, gen))

\* maskValue(value), a closure over sid; an object value goes to
\* this.maskObject(value, sid).
MaskValue(dicts, value, sid, st, rnd, gen) ==
    CASE value.kind = "string" ->
            StringLeaf(MaskLeaf(dicts, value.text, sid, st, rnd), sid, st)
      [] value.kind = "number" ->
            NumberLeaf(value, NumberToString(value.num),
                       MaskLeaf(dicts, NumberToString(value.num), sid, st, rnd), sid, st)
      [] value.kind = "array" ->
            Container(value, MaskElems(dicts, value.elems, 1, <<>>, sid, st, rnd, gen))
      [] value.kind = "object" ->
            MaskObjectCall(dicts, value, sid, st, rnd, gen)
      [] OTHER -> [value |-> value, st |-> st]

\* ------------------------------------------------------------ the inputs

\* Session ids a caller passes, and ids generateSessionId() returns
\* ("session_" + Date.now() + "_" + hex).
CallerIds == {"a", "b"}

GeneratedIds == {"session_1_a1b2c3d4"}

\* Ids generateSessionId() may return to the calls of one masker: two calls
\* in different milliseconds or with different random bytes get different
\* ids, two calls in one millisecond that draw the same bytes get the same.
ObjectGeneratedIds == {"session_1_a1b2c3d4", "session_2_01234567"}

SessionIds == CallerIds \cup GeneratedIds

PrefixClient == <<"[", "C", "L", "I", "E", "N", "T", "_">>

\* this.dictionaries after construction: none (loadDefaultRules), or one
\* dictionary loaded from a configuration that lists the default rules.
DictionaryConfigs ==
    { <<>>,
      << [name |-> "clients", terms |-> << <<"A", "c", "m", "e">>, <<"P", "a", "$", "$">> >>,
          prefix |-> PrefixClient, category |-> "business"] >> }

\* Texts passed to mask.
TextInputs ==
    { <<>>,
      <<"¥", "1">>,
      <<"¥", "1", " ", "¥", "2">>,
      <<"$", "5", "@", "b", ".", "c", "o", " ", "5", "@", "b", ".", "c", "o">>,
      <<"0", "3", "1", "2", "3", "4", "5", "6", "7", "8", " ", "1", ".", "2", ".", "3", ".", "4">>,
      <<"a", "c", "m", "e", " ", "c", "a", "m", "p", "a", "i", "g", "n", " ", "x">>,
      <<"P", "a", "$", "$">> }

\* A text without sensitive spans and without tokens.
PlainText == <<"x">>

\* Objects passed to maskObject.
ObjectInputs ==
    { ObjectValue(<< [key |-> "name", value |-> StringValue(<<"A", "c", "m", "e">>)],
                     [key |-> "cost", value |-> StringValue(<<"¥", "1">>)],
                     [key |-> "email", value |-> StringValue(<<"5", "@", "b", ".", "c", "o">>)] >>),
      ObjectValue(<< [key |-> "n", value |-> NumberValue(42)],
                     [key |-> "ok", value |-> BooleanValue(TRUE)],
                     [key |-> "rows", value |->
                         ArrayValue(<< StringValue(<<"$", "5">>), NullValue,
                                       ObjectValue(<< [key |-> "tel", value |->
                                                          NumberValue(81234567)] >>) >>)],
                     [key |-> ProtoKey, value |-> StringValue(<<"x">>)] >>) }

\* ------------------------------------------------------------- the state

VARIABLES
    dictionaries,      \* this.dictionaries, fixed by the constructor
    sessionMappings,   \* this.sessionMappings: session id -> mappings
    last,              \* the last call: its arguments and what it returned
    created,           \* per session: reversible substitutions since its last clear
    running,           \* the call on the stack that has not returned yet, if any
    lastIndex,         \* rule.pattern.lastIndex of every rule of this.rules
    analyzer           \* the BigQueryGA4Analyzer that owns the masker, if any

vars == <<dictionaries, sessionMappings, last, created, running, lastIndex, analyzer>>

\* A pattern made by a regular expression literal or new RegExp starts with
\* lastIndex 0.
NewLastIndex == [name \in RuleNames |-> 0]

\* The masker was made on its own, by new DataMasker().
NoAnalyzer == [made |-> FALSE, currentSessionId |-> "", tools |-> <<>>, reportGenerator |-> ""]

NoCall == [op |-> "new", sid |-> "", input |-> <<>>, output |-> <<>>, count |-> 0,
           events |-> <<>>, stats |-> EmptyStats, known |-> FALSE,
           of |-> [sid |-> "", input |-> <<>>, events |-> <<>>], cleared |-> {},
           inObj |-> NullValue, outObj |-> NullValue,
           sessionId |-> "", sids |-> <<>>, generated |-> 0,
           retry |-> [is |-> FALSE, output |-> <<>>, events |-> <<>>],
           remask |-> [is |-> FALSE, text |-> <<>>, events |-> <<>>],
           again |-> FALSE]

\* No call is on the stack.
Idle == [op |-> "none", task |-> "", sid |-> "", made |-> <<>>, done |-> 0, used |-> 0,
         result |-> NoCall]

\* What randomBytes may yield over the draws of one call.
RandomOutcomes == {rnd : rnd \in [1..MaxRandom -> HexSuffixes]}

NewTraversal == [stores |-> [s \in {} |-> <<>>], used |-> 0, calls |-> <<>>, generated |-> 0]

\* What mask and maskObject compute for an input does not depend on the
\* mappings the session already holds, except that their mappings.set calls
\* land in that session: maskOf and maskObjectOf hold the computation on a new
\* session once per input, and the actions repeat its mappings.set calls on
\* the session they are called with.
maskOf ==
    [dicts \in DictionaryConfigs, data \in TextInputs, rnd \in RandomOutcomes |->
        MaskText(dicts, <<>>, data, rnd)]

\* Texts mask has returned for TextInputs, passed to mask once more.
RemaskInputs ==
    {maskOf[dicts, data, rnd].masked :
        dicts \in DictionaryConfigs, data \in TextInputs, rnd \in RandomOutcomes}
        \ TextInputs

remaskOf ==
    [dicts \in DictionaryConfigs, data \in RemaskInputs, rnd \in RandomOutcomes |->
        MaskText(dicts, <<>>, data, rnd)]

MaskOf(dicts, data, rnd) ==
    IF data \in TextInputs THEN maskOf[dicts, data, rnd] ELSE remaskOf[dicts, data, rnd]

maskObjectOf ==
    [dicts \in DictionaryConfigs, obj \in ObjectInputs,
     sessionId \in CallerIds \cup {Undefined}, gen \in ObjectGeneratedIds,
     rnd \in RandomOutcomes |->
        MaskObjectCall(dicts, obj, sessionId, NewTraversal, rnd, gen)]

\* The state after new DataMasker(...).
Init ==
    /\ dictionaries \in DictionaryConfigs
    /\ sessionMappings = [s \in {} |-> <<>>]
    /\ last = NoCall
    /\ created = [s \in SessionIds |-> 0]
    /\ running = Idle
    /\ lastIndex = NewLastIndex
    /\ analyzer = NoAnalyzer

MappingsOf(sessionId) ==
    IF sessionId \in DOMAIN sessionMappings THEN sessionMappings[sessionId] ELSE <<>>

\* this.sessionMappings with the session's mappings set.
WithMappings(sessionId, mappings) ==
    [s \in DOMAIN sessionMappings \cup {sessionId} |->
        IF s = sessionId THEN mappings ELSE sessionMappings[s]]

\* Suffixes a call does not draw are left at one value.
Canonical(rnd, used) ==
    \A k \in 1..Len(rnd) : k > used => rnd[k] = <<"a", "1", "b", "2", "c", "3", "d", "4">>

RECURSIVE SumOver(_, _)
SumOver(f, S) ==
    IF S = {} THEN 0
    ELSE LET x == CHOOSE y \in S : TRUE IN f[x] + SumOver(f, S \ {x})

TotalCreated == SumOver(created, SessionIds)

AfterClear == {"clearSession", "mask", "maskObject"}

\* The tokens of the store that the clearSession(sessionId) just before this
\* call deleted: recorded by the first mask or maskObject call on the session
\* after the clear, and by an unmask call that follows either.
ClearedBefore(sessionId, ops) ==
    IF last.sid = sessionId /\ last.op \in ops THEN last.cleared ELSE {}

RECURSIVE SetAll(_, _, _)
\* The mappings.set calls of one mask call, from the k-th on.
SetAll(mappings, made, k) ==
    IF k > Len(made) THEN mappings
    ELSE SetAll(MapSet(mappings, made[k]), made, k + 1)

\* What a mask call that computed r leaves as the last call.
MaskReturned(sessionId, data, r) ==
    [NoCall EXCEPT !.op = "mask", !.sid = sessionId, !.input = data,
                   !.output = r.masked, !.count = r.maskCount,
                   !.events = r.events,
                   !.known = sessionId \in DOMAIN sessionMappings,
                   !.cleared = ClearedBefore(sessionId, {"clearSession"}),
                   !.retry = IF last.op = "mask" /\ last.sid = sessionId /\ last.input = data
                             THEN [is |-> TRUE, output |-> last.output, events |-> last.events]
                             ELSE NoCall.retry,
                   !.remask = IF /\ last.op = "mask" /\ last.sid = sessionId
                                 /\ last.output = data /\ ~last.remask.is
                              THEN [is |-> TRUE, text |-> last.input, events |-> last.events]
                              ELSE NoCall.remask]

\* mask that makes the session's store with its first mappings.set: a call
\* that stores nothing on an unseen id leaves no session behind.
MaskLazyStore(sessionId, data, rnd) ==
    LET r == MaskOf(dictionaries, data, rnd)
    IN  /\ r.used <= MaxRandom
        /\ Canonical(rnd, r.used)
        /\ TotalCreated + r.used <= MaxEntries
        /\ sessionMappings' = IF r.used = 0 /\ sessionId \notin DOMAIN sessionMappings
                               THEN sessionMappings
                               ELSE WithMappings(sessionId,
                                                 SetAll(MappingsOf(sessionId), r.mappings, 1))
        /\ created' = [created EXCEPT ![sessionId] = @ + r.used]
        /\ last' = MaskReturned(sessionId, data, r)
        /\ UNCHANGED <<dictionaries, lastIndex, analyzer, running>>

\* mask(sessionId, data), randomBytes yielding rnd[1], rnd[2], ...
Mask(sessionId, data, rnd) ==
    LET r == MaskOf(dictionaries, data, rnd)
    IN  /\ r.used <= MaxRandom
        /\ Canonical(rnd, r.used)
        /\ TotalCreated + r.used <= MaxEntries
        /\ sessionMappings' = WithMappings(sessionId, SetAll(MappingsOf(sessionId), r.mappings, 1))
        /\ created' = [created EXCEPT ![sessionId] = @ + r.used]
        /\ last' = MaskReturned(sessionId, data, r)
        /\ UNCHANGED <<dictionaries, lastIndex, analyzer, running>>

RECURSIVE UsedBy(_, _, _)
\* The reversible substitutions the mask calls of a traversal, from the k-th
\* on, made on session s.
UsedBy(calls, k, s) ==
    IF k > Len(calls) THEN 0
    ELSE (IF calls[k].sid = s THEN calls[k].used ELSE 0) + UsedBy(calls, k + 1, s)

\* this.sessionMappings after the mask calls of a traversal that left stores.
WithStores(stores) ==
    [s \in DOMAIN sessionMappings \cup DOMAIN stores |->
        IF s \in DOMAIN stores THEN SetAll(MappingsOf(s), stores[s], 1)
        ELSE sessionMappings[s]]

\* What a maskObject call that computed r leaves as the last call.
MaskObjectReturned(obj, sessionId, gen, r) ==
    [NoCall EXCEPT !.op = "maskObject", !.sid = SidOf(sessionId, gen),
                   !.sessionId = sessionId,
                   !.count = Len(r.st.calls),
                   !.sids = [k \in 1..Len(r.st.calls) |-> r.st.calls[k].sid],
                   !.generated = r.st.generated,
                   !.known = SidOf(sessionId, gen) \in DOMAIN sessionMappings,
                   !.cleared = ClearedBefore(SidOf(sessionId, gen), {"clearSession"}),
                   !.inObj = obj,
                   !.outObj = r.value]

\* maskObject(obj, sessionId), generateSessionId() returning gen when it is
\* called.  A session gets a store with the first mask call made under it.
MaskObject(obj, sessionId, gen, rnd) ==
    LET r == maskObjectOf[dictionaries, obj, sessionId, gen, rnd]
    IN  /\ r.st.used <= MaxRandom
        /\ Canonical(rnd, r.st.used)
        /\ TotalCreated + r.st.used <= MaxEntries
        /\ sessionMappings' = WithStores(r.st.stores)
        /\ created' = [s \in SessionIds |-> created[s] + UsedBy(r.st.calls, 1, s)]
        /\ last' = MaskObjectReturned(obj, sessionId, gen, r)
        /\ UNCHANGED <<dictionaries, lastIndex, analyzer, running>>

\* The mask call whose masked text data is: the call right before this one,
\* or the call that one retried.
MaskedBefore(data) ==
    IF last.op = "mask" /\ data = last.output
    THEN [sid |-> last.sid, input |-> last.input, events |-> last.events]
    ELSE IF last.op = "mask" /\ last.retry.is /\ data = last.retry.output
    THEN [sid |-> last.sid, input |-> last.input, events |-> last.retry.events]
    ELSE NoCall.of

\* unmask that reads the store of the session masked last rather than the
\* store of sessionId.
UnmaskLastMasked(sessionId, data) ==
    LET known == sessionId \in DOMAIN sessionMappings
        store == IF last.op = "mask" THEN MappingsOf(last.sid) ELSE MappingsOf(sessionId)
        r == IF known THEN UnmaskText(store, data)
             ELSE [unmasked |-> data, unmaskCount |-> 0]
    IN  /\ last' = [NoCall EXCEPT !.op = "unmask", !.sid = sessionId, !.input = data,
                                  !.output = r.unmasked, !.count = r.unmaskCount,
                                  !.known = known,
                                  !.cleared = ClearedBefore(sessionId, AfterClear),
                                  !.of = MaskedBefore(data),
                                  !.retry = IF MaskedBefore(data) # NoCall.of
                                            THEN last.retry ELSE NoCall.retry,
                                  !.remask = IF last.op = "mask" /\ data = last.output
                                             THEN last.remask ELSE NoCall.remask,
                                  !.again = /\ last.op = "unmask" /\ last.sid = sessionId
                                            /\ data = last.output]
        /\ UNCHANGED <<dictionaries, lastIndex, analyzer, sessionMappings, created, running>>

\* unmask whose early return for a session without a store gives back an
\* empty text.
UnmaskBlankUnknown(sessionId, data) ==
    LET known == sessionId \in DOMAIN sessionMappings
        r == IF known THEN UnmaskText(sessionMappings[sessionId], data)
             ELSE [unmasked |-> <<>>, unmaskCount |-> 0]
    IN  /\ last' = [NoCall EXCEPT !.op = "unmask", !.sid = sessionId, !.input = data,
                                  !.output = r.unmasked, !.count = r.unmaskCount,
                                  !.known = known,
                                  !.cleared = ClearedBefore(sessionId, AfterClear),
                                  !.of = MaskedBefore(data),
                                  !.retry = IF MaskedBefore(data) # NoCall.of
                                            THEN last.retry ELSE NoCall.retry,
                                  !.remask = IF last.op = "mask" /\ data = last.output
                                             THEN last.remask ELSE NoCall.remask,
                                  !.again = /\ last.op = "unmask" /\ last.sid = sessionId
                                            /\ data = last.output]
        /\ UNCHANGED <<dictionaries, lastIndex, analyzer, sessionMappings, created, running>>

\* unmask that deletes the session once it has replaced a token.
UnmaskConsumes(sessionId, data) ==
    LET known == sessionId \in DOMAIN sessionMappings
        r == IF known THEN UnmaskText(sessionMappings[sessionId], data)
             ELSE [unmasked |-> data, unmaskCount |-> 0]
    IN  /\ last' = [NoCall EXCEPT !.op = "unmask", !.sid = sessionId, !.input = data,
                                  !.output = r.unmasked, !.count = r.unmaskCount,
                                  !.known = known,
                                  !.cleared = ClearedBefore(sessionId, AfterClear),
                                  !.of = MaskedBefore(data),
                                  !.retry = IF MaskedBefore(data) # NoCall.of
                                            THEN last.retry ELSE NoCall.retry,
                                  !.remask = IF last.op = "mask" /\ data = last.output
                                             THEN last.remask ELSE NoCall.remask,
                                  !.again = /\ last.op = "unmask" /\ last.sid = sessionId
                                            /\ data = last.output]
        /\ sessionMappings' = IF r.unmaskCount > 0
                              THEN [s \in DOMAIN sessionMappings \ {sessionId} |->
                                       sessionMappings[s]]
                              ELSE sessionMappings
        /\ UNCHANGED <<dictionaries, lastIndex, analyzer, created, running>>

\* unmask(sessionId, data).
Unmask(sessionId, data) ==
    LET known == sessionId \in DOMAIN sessionMappings
        r == IF known THEN UnmaskText(sessionMappings[sessionId], data)
             ELSE [unmasked |-> data, unmaskCount |-> 0]
    IN  /\ last' = [NoCall EXCEPT !.op = "unmask", !.sid = sessionId, !.input = data,
                                  !.output = r.unmasked, !.count = r.unmaskCount,
                                  !.known = known,
                                  !.cleared = ClearedBefore(sessionId, AfterClear),
                                  !.of = MaskedBefore(data),
                                  !.retry = IF MaskedBefore(data) # NoCall.of
                                            THEN last.retry ELSE NoCall.retry,
                                  !.remask = IF last.op = "mask" /\ data = last.output
                                             THEN last.remask ELSE NoCall.remask,
                                  !.again = /\ last.op = "unmask" /\ last.sid = sessionId
                                            /\ data = last.output]
        /\ UNCHANGED <<dictionaries, lastIndex, analyzer, sessionMappings, created, running>>

\* clearSession as this.sessionMappings.clear(): every session is deleted.
ClearSessionAll(sessionId) ==
    /\ sessionMappings' = [s \in {} |-> <<>>]
    /\ created' = [s \in SessionIds |-> 0]
    /\ last' = [NoCall EXCEPT !.op = "clearSession", !.sid = sessionId,
                              !.known = sessionId \in DOMAIN sessionMappings,
                              !.cleared = Tokens(MappingsOf(sessionId))]
    /\ UNCHANGED <<dictionaries, lastIndex, analyzer, running>>

\* clearSession that deletes nothing.
ClearSessionKeeps(sessionId) ==
    /\ sessionMappings' = sessionMappings
    /\ created' = [created EXCEPT ![sessionId] = 0]
    /\ last' = [NoCall EXCEPT !.op = "clearSession", !.sid = sessionId,
                              !.known = sessionId \in DOMAIN sessionMappings,
                              !.cleared = Tokens(MappingsOf(sessionId))]
    /\ UNCHANGED <<dictionaries, lastIndex, analyzer, running>>

\* clearSession(sessionId).
ClearSession(sessionId) ==
    /\ sessionMappings' = [s \in DOMAIN sessionMappings \ {sessionId} |-> sessionMappings[s]]
    /\ created' = [created EXCEPT ![sessionId] = 0]
    /\ last' = [NoCall EXCEPT !.op = "clearSession", !.sid = sessionId,
                              !.known = sessionId \in DOMAIN sessionMappings,
                              !.cleared = Tokens(MappingsOf(sessionId))]
    /\ UNCHANGED <<dictionaries, lastIndex, analyzer, running>>

\* getSessionStats(sessionId).
GetSessionStats(sessionId) ==
    LET known == sessionId \in DOMAIN sessionMappings
    IN  /\ last' = [NoCall EXCEPT !.op = "getSessionStats", !.sid = sessionId,
                                  !.known = known,
                                  !.stats = IF known THEN StatsOf(sessionMappings[sessionId])
                                            ELSE EmptyStats]
        /\ UNCHANGED <<dictionaries, lastIndex, analyzer, sessionMappings, created, running>>

\* Texts passed to unmask: what the last mask call returned, a token of the
\* store deleted by the clear before it, or a plain text.
UnmaskInputs(sessionId) ==
    (IF last.op = "mask" THEN {last.output} ELSE {})
        \cup (IF last.op = "mask" /\ last.retry.is THEN {last.retry.output} ELSE {})
        \cup (IF last.op = "unmask" /\ last.sid = sessionId THEN {last.output} ELSE {})
        \cup ClearedBefore(sessionId, AfterClear) \cup {PlainText}

\* Texts passed to mask: the raw texts, and what the mask call right before
\* on the same session returned.
MaskInputs(sessionId) ==
    TextInputs \cup (IF last.op = "mask" /\ last.sid = sessionId /\ last.output \in RemaskInputs
                     THEN {last.output} ELSE {})

Next ==
    \/ \E sessionId \in CallerIds : \E data \in MaskInputs(sessionId), rnd \in RandomOutcomes :
          Mask(sessionId, data, rnd)
    \/ \E obj \in ObjectInputs, sessionId \in CallerIds \cup {Undefined},
          gen \in GeneratedIds, rnd \in RandomOutcomes :
          MaskObject(obj, sessionId, gen, rnd)
    \/ \E sessionId \in CallerIds : \E data \in UnmaskInputs(sessionId) :
          Unmask(sessionId, data)
    \/ \E sessionId \in CallerIds : ClearSession(sessionId)
    \/ \E sessionId \in CallerIds : GetSessionStats(sessionId)

Spec == Init /\ [][Next]_vars

\* ------------------------------------ calls issued by concurrent tasks

\* Every method of DataMasker is synchronous: none is async, awaits or yields.
\* The tasks that share a DataMasker run on one thread, so a call that has
\* begun runs to its return before any task begins another call.  The calls
\* are taken here one statement at a time, mask and maskObject one
\* mappings.set per step.
Tasks == {"t1", "t2"}

\* Texts passed to mask by the tasks.
TaskTextInputs == { <<"¥", "1">>, <<"¥", "1", " ", "¥", "2">> }

\* A call may begin whatever is on the stack.
CallStackAny == TRUE

\* A call begins when no call is on the stack.
CallStackEmpty == running.op = "none"

\* task calls mask(sessionId, data): the store of the session is created if
\* it is missing, the substitutions follow one by one.
MaskBegin(task, sessionId, data, rnd) ==
    LET r == maskOf[dictionaries, data, rnd]
    IN  /\ CallStackEmpty
        /\ r.used <= MaxRandom
        /\ Canonical(rnd, r.used)
        /\ TotalCreated + r.used <= MaxEntries
        /\ sessionMappings' = WithMappings(sessionId, MappingsOf(sessionId))
        /\ running' = [op |-> "mask", task |-> task, sid |-> sessionId,
                       made |-> r.mappings, done |-> 0, used |-> r.used,
                       result |-> MaskReturned(sessionId, data, r)]
        /\ UNCHANGED <<dictionaries, lastIndex, analyzer, last, created>>

\* task calls maskObject(obj, sessionId): the store of sid is created by the
\* first mask call of the traversal, the substitutions of all its mask calls
\* follow one by one.
MaskObjectBegin(task, obj, sessionId, gen, rnd) ==
    LET r == maskObjectOf[dictionaries, obj, sessionId, gen, rnd]
        sid == SidOf(sessionId, gen)
    IN  /\ CallStackEmpty
        /\ r.st.used <= MaxRandom
        /\ Canonical(rnd, r.st.used)
        /\ TotalCreated + r.st.used <= MaxEntries
        /\ sessionMappings' = IF sid \in DOMAIN r.st.stores
                              THEN WithMappings(sid, MappingsOf(sid))
                              ELSE sessionMappings
        /\ running' = [op |-> "maskObject", task |-> task, sid |-> sid,
                       made |-> StoreOf(r.st, sid), done |-> 0, used |-> r.st.used,
                       result |-> MaskObjectReturned(obj, sessionId, gen, r)]
        /\ UNCHANGED <<dictionaries, lastIndex, analyzer, last, created>>

\* The next mappings.set of the call on the stack.  mappings is the Map the
\* call read from this.sessionMappings when it began.
MappingsSet ==
    /\ running.op \in {"mask", "maskObject"}
    /\ running.done < Len(running.made)
    /\ sessionMappings' =
           IF running.sid \in DOMAIN sessionMappings
           THEN WithMappings(running.sid,
                             MapSet(sessionMappings[running.sid],
                                    running.made[running.done + 1]))
           ELSE sessionMappings
    /\ running' = [running EXCEPT !.done = @ + 1]
    /\ UNCHANGED <<dictionaries, lastIndex, analyzer, last, created>>

\* The call on the stack returns.
Return ==
    /\ running.op \in {"mask", "maskObject"}
    /\ running.done = Len(running.made)
    /\ last' = running.result
    /\ created' = [created EXCEPT ![running.sid] = @ + running.used]
    /\ running' = Idle
    /\ UNCHANGED <<dictionaries, lastIndex, analyzer, sessionMappings>>

NextTasks ==
    \/ \E task \in Tasks, sessionId \in CallerIds, data \in TaskTextInputs,
          rnd \in RandomOutcomes :
          MaskBegin(task, sessionId, data, rnd)
    \/ \E task \in Tasks, obj \in ObjectInputs, sessionId \in CallerIds \cup {Undefined},
          gen \in GeneratedIds, rnd \in RandomOutcomes :
          MaskObjectBegin(task, obj, sessionId, gen, rnd)
    \/ MappingsSet
    \/ Return
    \/ \E sessionId \in CallerIds : \E data \in UnmaskInputs(sessionId) :
          CallStackEmpty /\ Unmask(sessionId, data)
    \/ \E sessionId \in CallerIds : CallStackEmpty /\ ClearSession(sessionId)
    \/ \E sessionId \in CallerIds : CallStackEmpty /\ GetSessionStats(sessionId)

SpecTasks == Init /\ [][NextTasks]_vars

\* ------------------------------------------------------ QueryValidator

\* An optional field of a configuration or a task: left out, or given with
\* a value.
Absent == [defined |-> FALSE, value |-> 0]

AbsentList == [defined |-> FALSE, value |-> <<>>]

Given(value) == [defined |-> TRUE, value |-> value]

\* \w
WordChar == Letter \cup Digit \cup {"_"}

\* [a-zA-Z0-9_.-]
TableChar == Letter \cup Digit \cup {"_", ".", "-"}

\* The default of this.forbiddenOperations.
DefaultForbiddenOperations ==
    << <<"I", "N", "S", "E", "R", "T">>,
       <<"U", "P", "D", "A", "T", "E">>,
       <<"D", "E", "L", "E", "T", "E">>,
       <<"D", "R", "O", "P">>,
       <<"C", "R", "E", "A", "T", "E">>,
       <<"A", "L", "T", "E", "R">>,
       <<"T", "R", "U", "N", "C", "A", "T", "E">>,
       <<"M", "E", "R", "G", "E">> >>

\* this.forbiddenOperations = config.forbiddenOperations ?? [...].
ForbiddenOperationsOf(config) ==
    IF config.forbiddenOperations.defined THEN config.forbiddenOperations.value
    ELSE DefaultForbiddenOperations

\* \b at position i: one of the characters before and at i is a word
\* character, the other is not (or is missing).
WordBoundary(text, i) == (At(text, i - 1) \in WordChar) # (At(text, i) \in WordChar)

\* /\bop\b/.test(query): the 'i' flag left out.
ForbiddenTestCaseSensitive(op, query) ==
    \E i \in 1..Len(query) :
        /\ WordBoundary(query, i)
        /\ LitAt(query, i, op, FALSE)
        /\ WordBoundary(query, i + Len(op))

\* new RegExp('\\b' + op + '\\b', 'i').test(query), op being made of word
\* characters.
ForbiddenTest(op, query) ==
    \E i \in 1..Len(query) :
        /\ WordBoundary(query, i)
        /\ LitAt(query, i, op, TRUE)
        /\ WordBoundary(query, i + Len(op))

ForbiddenPrefix == <<"F", "o", "r", "b", "i", "d", "d", "e", "n", " ", "o", "p", "e", "r", "a", "t", "i", "o", "n", ":", " ">>

RECURSIVE ForbiddenErrors(_, _, _)
\* The loop over this.forbiddenOperations from the k-th operation on.
ForbiddenErrors(ops, k, query) ==
    IF k > Len(ops) THEN <<>>
    ELSE (IF ForbiddenTest(ops[k], query) THEN <<ForbiddenPrefix \o ops[k]>> ELSE <<>>)
             \o ForbiddenErrors(ops, k + 1, query)

\* /kw\s+B?([a-zA-Z0-9_.-]+)B?/i at position i, B being the backtick: the
\* position of the captured
\* name, or 0.
TableRefAt(kw, query, i) ==
    LET s == i + Len(kw)
        w == RunLen(query, s, WhiteSpace)
        n == IF At(query, s + w) = Backtick THEN s + w + 1 ELSE s + w
    IN  IF LitAt(query, i, kw, TRUE) /\ w >= 1 /\ RunLen(query, n, TableChar) >= 1
        THEN n ELSE 0

RECURSIVE TableRefs(_, _, _)
\* The exec loop of one of the two global expressions from position i on:
\* the captured names in the order of their matches.
TableRefs(kw, query, i) ==
    IF i > Len(query) THEN <<>>
    ELSE IF TableRefAt(kw, query, i) = 0 THEN TableRefs(kw, query, i + 1)
    ELSE LET n == TableRefAt(kw, query, i)
             e == n + RunLen(query, n, TableChar)
         IN  <<SubSeq(query, n, e - 1)>>
                 \o TableRefs(kw, query, IF At(query, e) = Backtick THEN e + 1 ELSE e)

RECURSIVE Unique(_, _)
\* [...new Set(tables)]: the first occurrence of each name, in order.
Unique(tables, k) ==
    IF k > Len(tables) THEN <<>>
    ELSE (IF \E j \in 1..(k - 1) : tables[j] = tables[k] THEN <<>> ELSE <<tables[k]>>)
             \o Unique(tables, k + 1)

KeywordFrom == <<"F", "R", "O", "M">>

KeywordJoin == <<"J", "O", "I", "N">>

ExtractTableReferences(query) ==
    Unique(TableRefs(KeywordFrom, query, 1) \o TableRefs(KeywordJoin, query, 1), 1)

\* Position of the first "." of text, or 0.
FirstDot(text) == FindLit(text, 1, <<".">>, FALSE)

RECURSIVE LastPart(_, _)
\* The last part of text split at the dots, from position i on.
LastPart(text, i) ==
    IF FindLit(text, i, <<".">>, FALSE) = 0 THEN SubSeq(text, i, Len(text))
    ELSE LastPart(text, FindLit(text, i, <<".">>, FALSE) + 1)

DefaultDataset == <<"d", "e", "f", "a", "u", "l", "t">>

\* parts.length > 1 ? parts[0] : 'default', parts being table split at
\* the dots.
DatasetOf(table) ==
    IF FirstDot(table) = 0 THEN DefaultDataset ELSE SubSeq(table, 1, FirstDot(table) - 1)

\* dataset without its backticks, split at the dots, the last part.
CleanDataset(dataset) == LastPart(SelectSeq(dataset, LAMBDA c : c # Backtick), 1)

AccessDeniedPrefix == <<"A", "c", "c", "e", "s", "s", " ", "d", "e", "n", "i", "e", "d", " ", "t", "o", " ", "d", "a", "t", "a", "s", "e", "t", ":", " ">>

RECURSIVE DatasetErrors(_, _, _)
\* The loop over tableRefs from the k-th table on.
DatasetErrors(allowedDatasets, tables, k) ==
    IF k > Len(tables) THEN <<>>
    ELSE (IF /\ Len(allowedDatasets) > 0
             /\ ~\E j \in 1..Len(allowedDatasets) :
                    Contains(CleanDataset(DatasetOf(tables[k])), allowedDatasets[j])
          THEN <<AccessDeniedPrefix \o CleanDataset(DatasetOf(tables[k]))>> ELSE <<>>)
             \o DatasetErrors(allowedDatasets, tables, k + 1)

\* text.toLowerCase().includes(part.toLowerCase()).
IncludesLower(text, part) == FindLit(text, 1, part, TRUE) # 0

SensitivePrefix == <<"S", "e", "n", "s", "i", "t", "i", "v", "e", " ", "c", "o", "l", "u", "m", "n", " ", "d", "e", "t", "e", "c", "t", "e", "d", ":", " ">>

RECURSIVE ColumnWarnings(_, _, _)
\* The loop over this.restrictedColumns from the k-th (table, column) on.
ColumnWarnings(restrictedColumns, k, query) ==
    IF k > Len(restrictedColumns) THEN <<>>
    ELSE (IF IncludesLower(query, restrictedColumns[k].column)
          THEN <<SensitivePrefix \o restrictedColumns[k].table \o <<".">>
                    \o restrictedColumns[k].column>>
          ELSE <<>>)
             \o ColumnWarnings(restrictedColumns, k + 1, query)

KeywordSelect == <<"S", "E", "L", "E", "C", "T">>

\* /SELECT\s+\*/i.test(query).
SelectStarTest(query) ==
    \E i \in 1..Len(query) :
        /\ LitAt(query, i, KeywordSelect, TRUE)
        /\ RunLen(query, i + Len(KeywordSelect), WhiteSpace) >= 1
        /\ At(query, i + Len(KeywordSelect)
                       + RunLen(query, i + Len(KeywordSelect), WhiteSpace)) = "*"

KeywordWhere == <<"w", "h", "e", "r", "e">>

PartitionColumns ==
    << <<"e", "v", "e", "n", "t", "_", "d", "a", "t", "e">>,
       <<"_", "P", "A", "R", "T", "I", "T", "I", "O", "N", "T", "I", "M", "E">>,
       <<"_", "P", "A", "R", "T", "I", "T", "I", "O", "N", "D", "A", "T", "E">>,
       <<"d", "a", "t", "e">>,
       <<"p", "a", "r", "t", "i", "t", "i", "o", "n", "_", "d", "a", "t", "e">> >>

HasPartitionFilter(query) ==
    /\ IncludesLower(query, KeywordWhere)
    /\ \E k \in 1..Len(PartitionColumns) : IncludesLower(query, PartitionColumns[k])

KeywordLimit == <<"L", "I", "M", "I", "T">>

SelectStarWarning == <<"S", "E", "L", "E", "C", "T", " ", "*", " ", "i", "s", " ", "n", "o", "t", " ", "r", "e", "c", "o", "m", "m", "e", "n", "d", "e", "d", ".", " ", "P", "l", "e", "a", "s", "e", " ", "s", "p", "e", "c", "i", "f", "y", " ", "r", "e", "q", "u", "i", "r", "e", "d", " ", "c", "o", "l", "u", "m", "n", "s", ".">>

PartitionWarning ==
    <<"R", "e", "c", "o", "m", "m", "e", "n", "d", " ", "u", "s", "i", "n", "g", " ", "p", "a", "r", "t", "i", "t", "i", "o", "n", " ", "f", "i", "l", "t", "e", "r", " ", "(", "e", ".", "g", ".", ",", " ", "e", "v", "e", "n", "t", "_", "d", "a", "t", "e", ")", " ", "f", "o", "r", " ", "c", "o", "s", "t", " ", "o", "p", "t", "i", "m", "i", "z", "a", "t", "i", "o", "n", ".">>

LimitWarning == <<"C", "o", "n", "s", "i", "d", "e", "r", " ", "a", "d", "d", "i", "n", "g", " ", "L", "I", "M", "I", "T", " ", "c", "l", "a", "u", "s", "e", " ", "t", "o", " ", "c", "o", "n", "t", "r", "o", "l", " ", "r", "e", "s", "u", "l", "t", " ", "s", "i", "z", "e", ".">>

\* The errors of validate(query), in the order they are pushed.
ErrorsOf(config, query) ==
    ForbiddenErrors(ForbiddenOperationsOf(config), 1, query)
        \o DatasetErrors(config.allowedDatasets, ExtractTableReferences(query), 1)

\* The warnings of validate(query), in the order they are pushed.
WarningsOf(config, query) ==
    ColumnWarnings(config.restrictedColumns, 1, query)
        \o (IF SelectStarTest(query) THEN <<SelectStarWarning>> ELSE <<>>)
        \o (IF ~HasPartitionFilter(query) THEN <<PartitionWarning>> ELSE <<>>)
        \o (IF ~ForbiddenTest(KeywordLimit, query) THEN <<LimitWarning>> ELSE <<>>)

\* new QueryValidator(config).validate(query).
ValidateResult(config, query) ==
    [valid |-> Len(ErrorsOf(config, query)) = 0,
     errors |-> ErrorsOf(config, query),
     warnings |-> WarningsOf(config, query)]

\* Configurations passed to new QueryValidator; restrictedColumns as its
\* (table, column) pairs in order.
ValidatorConfigs ==
    { [allowedDatasets |-> << <<"a", "n", "a", "l", "y", "t", "i", "c", "s">> >>, restrictedColumns |-> <<>>,
       forbiddenOperations |-> AbsentList],
      [allowedDatasets |-> <<>>,
       restrictedColumns |-> << [table |-> <<"u", "s", "e", "r", "s">>, column |-> <<"E", "m", "a", "i", "l">>] >>,
       forbiddenOperations |-> AbsentList],
      [allowedDatasets |-> << <<"a", "n", "a", "l", "y", "t", "i", "c", "s">> >>, restrictedColumns |-> <<>>,
       forbiddenOperations |-> Given(<< <<"d", "r", "o", "p">> >>)] }

\* How the queries passed to validate begin.
QueryHeads ==
    { <<"D", "E", "L", "E", "T", "E">>,
      <<"d", "e", "l", "e", "t", "e">>,
      <<"D", "r", "o", "p">>,
      <<"d", "e", "l", "e", "t", "e", "d", "_", "a", "t">>,
      <<"x", "D", "R", "O", "P">>,
      <<"S", "E", "L", "E", "C", "T", " ", "*">>,
      <<"s", "e", "l", "e", "c", "t", " ", " ", "*">>,
      <<"S", "E", "L", "E", "C", "T", " ", "e", "m", "a", "i", "l">>,
      <<"M", "E", "R", "G", "E", "1">>,
      <<"I", "n", "s", "e", "r", "t">>,
      <<"u", "p", "d", "a", "t", "e", "-", "x", " ", "1", ";", "S", "E", "L", "E", "C", "T", " ", "a">>,
      <<"S", "E", "L", "E", "C", "T", "*">> }

\* How the queries passed to validate go on.
QueryTails ==
    { <<>>,
      <<" ", "F", "R", "O", "M", " ", "a", "n", "a", "l", "y", "t", "i", "c", "s", ".", "e", "v", "e", "n", "t", "s">>,
      <<" ", "f", "r", "o", "m", " ", Backtick, "s", "e", "c", "r", "e", "t", ".", "l", "o", "g", "s", Backtick>>,
      <<" ", "F", "R", "O", "M", " ", "e", "v", "e", "n", "t", "s">>,
      <<" ", "F", "R", "O", "M", " ", "a", "n", "a", "l", "y", "t", "i", "c", "s", ".", "e", "v", "e", "n", "t", "s", " ", "W", "H", "E", "R", "E", " ", "e", "v", "e", "n", "t", "_", "d", "a", "t", "e", " ", "=", " ", "1", " ", "L", "I", "M", "I", "T", " ", "5">>,
      <<" ", "F", "R", "O", "M", " ", "a", "n", "a", "l", "y", "t", "i", "c", "s", ".", "t", " ", "J", "O", "I", "N", " ", "h", "r", ".", "p", "a", "y">>,
      <<"_", "x", " ", "F", "R", "O", "M", " ", "p", ".", "a", "n", "a", "l", "y", "t", "i", "c", "s", ".", "t", " ", "w", "h", "e", "r", "e", " ", "1">>,
      <<" ", "F", "r", "o", "m", " ", "a", "n", "a", "l", "y", "t", "i", "c", "s", ".", "a", ",", " ", "a", "n", "a", "l", "y", "t", "i", "c", "s", ".", "a", " ", "l", "i", "m", "i", "t", "_", "1">>,
      <<" ", "F", "R", "O", "M", " ", " ", "m", "y", "_", "a", "n", "a", "l", "y", "t", "i", "c", "s", "_", "2", ".", "t", ";", " ", "t", "r", "u", "n", "c", "a", "t", "e", " ", "x">> }

\* Queries passed to validate.
QueryInputs == {head \o tail : head \in QueryHeads, tail \in QueryTails}

validateOf ==
    [config \in ValidatorConfigs, query \in QueryInputs |-> ValidateResult(config, query)]

\* A validator made with one of the configurations, and the query it is
\* about to be given.
InitValidate ==
    /\ dictionaries = <<>>
    /\ sessionMappings = [s \in {} |-> <<>>]
    /\ last \in {[op |-> "new QueryValidator", config |-> config, query |-> query] :
                    config \in ValidatorConfigs, query \in QueryInputs}
    /\ created = [s \in SessionIds |-> 0]
    /\ running = Idle
    /\ lastIndex = NewLastIndex
    /\ analyzer = NoAnalyzer

\* validate(last.query) on the validator made with last.config.
Validate ==
    /\ last.op = "new QueryValidator"
    /\ last' = [op |-> "validate", config |-> last.config, query |-> last.query,
                valid |-> validateOf[last.config, last.query].valid,
                errors |-> validateOf[last.config, last.query].errors,
                warnings |-> validateOf[last.config, last.query].warnings]
    /\ UNCHANGED <<dictionaries, lastIndex, analyzer, sessionMappings, created, running>>

NextValidate == Validate

SpecValidate == InitValidate /\ [][NextValidate]_vars

\* ---------------------------------------------------------- ModelRouter

\* Scores are doubles in the code.  Here they are exact, counted in units of
\* 1/7300, in which every summand of analyzeComplexity is a whole number for
\* whole days and depths: 0.01 is 73 units and one day of 365 is 20 units.
\* The rounding of the sums is left out.
Score(hundredths) == hundredths * 73

NoFallback == "null"

\* DEFAULT_TIERS in the order of its keys; costPer1MTokens in hundredths.
DefaultTiers ==
    << [tier |-> "simple", complexityRange |-> <<Score(0), Score(30)>>,
        model |-> "claude-3-5-haiku-20241022", fallback |-> "claude-3-5-haiku-20241022",
        costPer1MTokens |-> 25],
       [tier |-> "moderate", complexityRange |-> <<Score(30), Score(60)>>,
        model |-> "claude-3-5-haiku-20241022", fallback |-> "claude-sonnet-4-20250514",
        costPer1MTokens |-> 25],
       [tier |-> "complex", complexityRange |-> <<Score(60), Score(80)>>,
        model |-> "claude-sonnet-4-20250514", fallback |-> "claude-opus-4-5-20251101",
        costPer1MTokens |-> 300],
       [tier |-> "expert", complexityRange |-> <<Score(80), Score(100)>>,
        model |-> "claude-opus-4-5-20251101", fallback |-> NoFallback,
        costPer1MTokens |-> 1500] >>

TierConfigOf(tiers, tier) == tiers[CHOOSE k \in 1..Len(tiers) : tiers[k].tier = tier]

ComplexKeywords ==
    << <<"p", "r", "e", "d", "i", "c", "t">>,
       <<"f", "o", "r", "e", "c", "a", "s", "t">>,
       <<"t", "r", "e", "n", "d">>,
       <<"c", "o", "r", "r", "e", "l", "a", "t", "i", "o", "n">>,
       <<"r", "e", "g", "r", "e", "s", "s", "i", "o", "n">>,
       <<"s", "t", "a", "t", "i", "s", "t", "i", "c", "a", "l">>,
       <<"a", "n", "o", "m", "a", "l", "y">>,
       <<"p", "a", "t", "t", "e", "r", "n">>,
       <<"i", "n", "s", "i", "g", "h", "t">>,
       <<"r", "e", "c", "o", "m", "m", "e", "n", "d", "a", "t", "i", "o", "n">>,
       <<"s", "t", "r", "a", "t", "e", "g", "y">>,
       <<"c", "o", "m", "p", "a", "r", "e">>,
       <<"b", "e", "n", "c", "h", "m", "a", "r", "k">> >>

\* text.includes(part), text compared by its lower-case form.
IncludesKeyword(text, part) == \E i \in 1..Len(text) : LitAt(text, i, part, TRUE)

\* The keywords of complexKeywords that queryLower includes.
KeywordHits(query) ==
    Cardinality({k \in 1..Len(ComplexKeywords) : IncludesKeyword(query, ComplexKeywords[k])})

\* analyzeComplexity before the final Math.min.
ScoreOf(task, hits) ==
    Min(Len(task.dataSources) * Score(10), Score(30))
        + (IF task.dateRange.defined THEN Min(task.dateRange.value * 20, Score(20)) ELSE 0)
        + (IF task.aggregations.defined
           THEN Min(Len(task.aggregations.value) * Score(5), Score(15)) ELSE 0)
        + (IF task.requiresCrossAnalysis THEN Score(15) ELSE 0)
        + (IF task.requiresPrediction THEN Score(20) ELSE 0)
        + (IF task.insightDepth.defined THEN task.insightDepth.value * Score(2) ELSE 0)
        + (IF Len(task.query) > 500 THEN Score(5) ELSE 0)
        + (IF Len(task.query) > 1000 THEN Score(5) ELSE 0)
        + hits * Score(3)

\* analyzeComplexity(task), hits being the keywords found in the query.
AnalyzeComplexity(task, hits) == Min(ScoreOf(task, hits), Score(100))

RECURSIVE TierFrom(_, _, _)
\* getTierForComplexity: the loop over Object.entries(this.tiers) from the
\* k-th tier on, and the default behind it.
TierFrom(tiers, k, complexity) ==
    IF k > Len(tiers) THEN "expert"
    ELSE IF /\ complexity >= tiers[k].complexityRange[1]
            /\ complexity < tiers[k].complexityRange[2]
         THEN tiers[k].tier
         ELSE TierFrom(tiers, k + 1, complexity)

GetTierForComplexity(tiers, complexity) == TierFrom(tiers, 1, complexity)

\* estimateCost, in units of 10^-8: (estimatedTokens / 1000000) times the cost
\* in hundredths.
EstimateCost(tiers, tier, estimatedTokens) ==
    estimatedTokens * TierConfigOf(tiers, tier).costPer1MTokens

\* What route returns for a tier and a complexity.
Routed(tiers, tier, complexity, estimatedTokens, fallback) ==
    [tier |-> tier, model |-> TierConfigOf(tiers, tier).model, complexity |-> complexity,
     estimatedCost |-> EstimateCost(tiers, tier, estimatedTokens),
     fallbackModel |-> fallback]

\* route(task, estimatedTokens) of a router with the given tiers.
RouteResult(enabled, tiers, task, hits, estimatedTokens) ==
    IF ~enabled
    THEN Routed(tiers, "moderate", Score(50), estimatedTokens, Undefined)
    ELSE Routed(tiers, GetTierForComplexity(tiers, AnalyzeComplexity(task, hits)),
                AnalyzeComplexity(task, hits), estimatedTokens,
                IF TierConfigOf(tiers, GetTierForComplexity(tiers, AnalyzeComplexity(task, hits))).fallback
                       = NoFallback
                THEN Undefined
                ELSE TierConfigOf(tiers, GetTierForComplexity(tiers, AnalyzeComplexity(task, hits))).fallback)

\* Queries of the tasks: the two of the tests, and two long ones.
RouteQueries ==
    { <<"S", "h", "o", "w", " ", "t", "o", "t", "a", "l", " ", "u", "s", "e", "r", "s">>,
      <<"A", "n", "a", "l", "y", "z", "e", " ", "t", "r", "e", "n", "d", "s", " ", "a", "n", "d", " ", "p", "r", "e", "d", "i", "c", "t", " ", "f", "u", "t", "u", "r", "e", " ", "c", "o", "n", "v", "e", "r", "s", "i", "o", "n", "s", " ", "w", "i", "t", "h", " ", "s", "t", "a", "t", "i", "s", "t", "i", "c", "a", "l", " ", "c", "o", "r", "r", "e", "l", "a", "t", "i", "o", "n">>,
      [i \in 1..501 |-> "x"],
      <<"C", "o", "m", "p", "a", "r", "e", " ">> \o [i \in 1..1000 |-> "y"] }

keywordHitsOf == [query \in RouteQueries |-> KeywordHits(query)]

DataSourceInputs == { <<>>, <<"ga4">>, <<"bigquery", "ga4">>, <<"bigquery", "ga4", "crm", "ads">> }

DayInputs == {Absent, Given(0 - 30), Given(7), Given(365)}

AggregationInputs == {AbsentList, Given(<<"sum", "avg">>), Given(<<"sum", "avg", "min", "max">>)}

DepthInputs == {Absent, Given(0 - 5), Given(0), Given(8), Given(10), Given(50)}

DefaultEstimatedTokens == 1000

\* The tasks passed to route.
TaskInputs ==
    {[query |-> query, dataSources |-> dataSources,
      dateRange |-> dateRange, aggregations |-> aggregations,
      requiresCrossAnalysis |-> requiresCrossAnalysis,
      requiresPrediction |-> requiresPrediction,
      insightDepth |-> insightDepth] :
        query \in RouteQueries, dataSources \in DataSourceInputs,
        dateRange \in DayInputs, aggregations \in AggregationInputs,
        requiresCrossAnalysis \in BOOLEAN, requiresPrediction \in BOOLEAN,
        insightDepth \in DepthInputs}

\* A router made by createModelRouter(enabled), and the task it is about to
\* be given.
InitRoute ==
    /\ dictionaries = <<>>
    /\ sessionMappings = [s \in {} |-> <<>>]
    /\ last \in {[op |-> "createModelRouter", enabled |-> enabled, task |-> task] :
                    enabled \in BOOLEAN, task \in TaskInputs}
    /\ created = [s \in SessionIds |-> 0]
    /\ running = Idle
    /\ lastIndex = NewLastIndex
    /\ analyzer = NoAnalyzer

\* route(last.task) on the router made by createModelRouter(last.enabled).
Route ==
    /\ last.op = "createModelRouter"
    /\ last' = [op |-> "route", enabled |-> last.enabled, task |-> last.task,
                result |-> RouteResult(last.enabled, DefaultTiers, last.task,
                                       keywordHitsOf[last.task.query],
                                       DefaultEstimatedTokens)]
    /\ UNCHANGED <<dictionaries, lastIndex, analyzer, sessionMappings, created, running>>

NextRoute == Route

SpecRoute == InitRoute /\ [][NextRoute]_vars

\* ------------------------------------ mask on the patterns' own state

\* The rule patterns are global regular expressions, objects that carry
\* lastIndex from one use to the next.  The definitions below run mask on the
\* store and on the lastIndex values the masker holds at the call, where the
\* tables above hold what mask computes from a new session.

\* rule.pattern.lastIndex = 0, then masked.replace(rule.pattern, callback):
\* replace with a global pattern scans the text from its first character to
\* its end, whatever lastIndex was, and leaves lastIndex at 0.
ScanRule(rule, text, index, acc, rnd) ==
    [acc |-> ReplaceRule(rule, text, 1, [acc EXCEPT !.masked = <<>>], rnd),
     lastIndex |-> 0]

RECURSIVE ScanRules(_, _, _, _, _)
\* The rest of the loop over this.rules once the k-th rule has been scanned.
ScannedRule(rules, k, r, index, rnd) ==
    ScanRules(rules, k + 1, r.acc, [index EXCEPT ![rules[k].name] = r.lastIndex], rnd)

\* for (const rule of this.rules), from the k-th rule on; index holds the
\* lastIndex of every pattern.
ScanRules(rules, k, acc, index, rnd) ==
    IF k > Len(rules) THEN [acc |-> acc, lastIndex |-> index]
    ELSE ScannedRule(rules, k,
                     ScanRule(rules[k], acc.masked, index[rules[k].name], acc, rnd),
                     index, rnd)

\* The dictionary loops, behind the rules; each term gets a new RegExp.
ScanDictionaries(dicts, r, rnd) ==
    [acc |-> ApplyDictionaries(dicts, 1, r.acc, rnd), lastIndex |-> r.lastIndex]

\* mask(sessionId, data) on the session's mappings and the patterns' lastIndex.
MaskScanText(dicts, mappings, index, data, rnd) ==
    ScanDictionaries(dicts,
        ScanRules(DefaultRules, 1,
                  [masked |-> data, maskCount |-> 0, mappings |-> mappings,
                   used |-> 0, events |-> <<>>],
                  index, rnd),
        rnd)

\* Reversible substitutions the session may hold in the runs of SpecScan,
\* counted since its last clear.
ScanMaxEntries == 3

PrefixTerm == <<"[", "T", "E", "R", "M", "_">>

\* this.dictionaries: none, or one dictionary with a term that also stands in
\* the tokens of the currency rules.
ScanDictionaryConfigs ==
    { <<>>,
      << [name |-> "terms", terms |-> << <<"A", "m", "o", "u", "n", "t">> >>,
          prefix |-> PrefixTerm, category |-> "business"] >> }

ScanTextInputs ==
    { <<"¥", "1">>,
      <<"c", "a", "m", "p", "a", "i", "g", "n", " ", "x">> }

ScanIds == {"a"}

\* Texts passed to mask: the raw texts, and what the mask call right before
\* returned.
ScanInputs == ScanTextInputs \cup (IF last.op = "mask" THEN {last.output} ELSE {})

\* Texts passed to unmask: what the call right before returned, the text the
\* unmask call right before was given, or a plain text.
ScanUnmaskInputs ==
    (IF last.op \in {"mask", "unmask"} THEN {last.output} ELSE {})
        \cup (IF last.op = "unmask" THEN {last.input} ELSE {}) \cup {PlainText}

InitScan ==
    /\ dictionaries \in ScanDictionaryConfigs
    /\ sessionMappings = [s \in {} |-> <<>>]
    /\ last = NoCall
    /\ created = [s \in SessionIds |-> 0]
    /\ running = Idle
    /\ lastIndex = NewLastIndex
    /\ analyzer = NoAnalyzer

\* The return of a mask call that computed r.
MaskScanned(sessionId, data, rnd, r) ==
    /\ r.acc.used <= MaxRandom
    /\ Canonical(rnd, r.acc.used)
    /\ created[sessionId] + r.acc.used <= ScanMaxEntries
    /\ sessionMappings' = WithMappings(sessionId, r.acc.mappings)
    /\ created' = [created EXCEPT ![sessionId] = @ + r.acc.used]
    /\ last' = MaskReturned(sessionId, data, r.acc)
    /\ lastIndex' = r.lastIndex
    /\ UNCHANGED <<dictionaries, running, analyzer>>

\* mask(sessionId, data), randomBytes yielding rnd[1], rnd[2], ...
MaskScan(sessionId, data, rnd) ==
    MaskScanned(sessionId, data, rnd,
                MaskScanText(dictionaries, MappingsOf(sessionId), lastIndex, data, rnd))

NextScan ==
    \/ \E sessionId \in ScanIds : \E data \in ScanInputs, rnd \in RandomOutcomes :
          MaskScan(sessionId, data, rnd)
    \/ \E sessionId \in ScanIds : \E data \in ScanUnmaskInputs : Unmask(sessionId, data)
    \/ \E sessionId \in ScanIds : ClearSession(sessionId)
    \/ \E sessionId \in ScanIds : GetSessionStats(sessionId)

SpecScan == InitScan /\ [][NextScan]_vars

\* ----------------------------------- maskObject calls without a session id

\* Entries the sessions may hold together in the runs of SpecObjects.
ObjectMaxEntries == 2

\* The entries of all sessions.
TotalEntries ==
    SumOver([s \in DOMAIN sessionMappings |-> Len(sessionMappings[s])], DOMAIN sessionMappings)

\* The return of a maskObject call whose traversal computed r.
MaskObjectDone(obj, sessionId, gen, rnd, r) ==
    /\ r.st.used <= MaxRandom
    /\ Canonical(rnd, r.st.used)
    /\ TotalEntries + r.st.used <= ObjectMaxEntries
    /\ sessionMappings' = WithStores(r.st.stores)
    /\ last' = MaskObjectReturned(obj, sessionId, gen, r)
    /\ UNCHANGED <<dictionaries, lastIndex, analyzer, created, running>>

\* maskObject(obj, sessionId), generateSessionId() returning gen when it is
\* called.
MaskObjectUnder(obj, sessionId, gen, rnd) ==
    MaskObjectDone(obj, sessionId, gen, rnd, maskObjectOf[dictionaries, obj, sessionId, gen, rnd])

NextObjects ==
    \/ \E obj \in ObjectInputs, sessionId \in CallerIds \cup {Undefined},
          gen \in ObjectGeneratedIds, rnd \in RandomOutcomes :
          MaskObjectUnder(obj, sessionId, gen, rnd)
    \/ \E sessionId \in CallerIds : ClearSession(sessionId)

SpecObjects == Init /\ [][NextObjects]_vars

\* ------------------------------------------------- BigQueryGA4Analyzer

\* The analyzer owns one DataMasker, made by new DataMasker(): the default
\* rules and no dictionary.  analyzer.currentSessionId is this.currentSessionId,
\* analyzer.reportGenerator the sessionId the report generator was made with,
\* and analyzer.tools the sessionId each createBigQueryTools call was given, in
\* the order the tools were pushed on the agents' tool lists.

\* Ids generateSessionId() of the analyzer returns
\* ("session_" + Date.now() + "_" + six characters of Math.random()).
AnalyzerIds == {"session_1_k3x9q2", "session_2_p0w8z5"}

\* initialize() calls in the explored runs.
MaxInitialize == 2

\* Entries one session may hold in the explored runs.
AnalyzerMaxEntries == 2

\* Rows executeSQL returns to the bigquery_execute_sql tool.
RowInputs ==
    { ObjectValue(<< [key |-> "cost", value |-> StringValue(<<"¥", "1">>)] >>),
      ObjectValue(<< [key |-> "name", value |-> StringValue(<<"c", "a", "m", "p", "a", "i", "g", "n", " ", "x">>)] >>) }

\* The state after new BigQueryGA4Analyzer(): the session id is generated, the
\* report generator is made with it, and the agents have no tools yet.
InitAnalyzer ==
    /\ dictionaries = <<>>
    /\ sessionMappings = [s \in {} |-> <<>>]
    /\ last = NoCall
    /\ created = [s \in SessionIds |-> 0]
    /\ running = Idle
    /\ lastIndex = NewLastIndex
    /\ analyzer \in {[made |-> TRUE, currentSessionId |-> id, tools |-> <<>>,
                      reportGenerator |-> id] : id \in AnalyzerIds}

\* initialize(): the tools are made with the current session id, which they
\* keep as the parameter sessionId of createBigQueryTools, and pushed behind
\* the tools the agents already have.
Initialize ==
    /\ Len(analyzer.tools) < MaxInitialize
    /\ analyzer' = [analyzer EXCEPT !.tools = Append(@, analyzer.currentSessionId)]
    /\ last' = [NoCall EXCEPT !.op = "initialize", !.sid = analyzer.currentSessionId]
    /\ UNCHANGED <<dictionaries, lastIndex, sessionMappings, created, running>>

\* newSession(), generateSessionId() returning id: the current session is
\* cleared, the id replaced and the report generator made anew with it.
NewSession(id) ==
    /\ sessionMappings' = [s \in DOMAIN sessionMappings \ {analyzer.currentSessionId} |->
                              sessionMappings[s]]
    /\ analyzer' = [analyzer EXCEPT !.currentSessionId = id, !.reportGenerator = id]
    /\ last' = [NoCall EXCEPT !.op = "newSession", !.sid = id,
                              !.cleared = Tokens(MappingsOf(analyzer.currentSessionId))]
    /\ UNCHANGED <<dictionaries, lastIndex, created, running>>

\* The return of the tool whose maskObject call computed r under sid.
ToolReturned(row, sid, r) ==
    /\ Len(MappingsOf(sid)) + r.st.used <= AnalyzerMaxEntries
    /\ sessionMappings' = WithStores(r.st.stores)
    /\ last' = [NoCall EXCEPT !.op = "executeTool", !.sid = sid,
                              !.known = sid \in DOMAIN sessionMappings,
                              !.input = row.elems[1].value.text,
                              !.output = r.value.elems[1].value.text,
                              !.inObj = row, !.outObj = r.value]
    /\ UNCHANGED <<dictionaries, lastIndex, analyzer, created, running>>

\* An agent executes bigquery_execute_sql: this.tools.find takes the first
\* tool of that name, and the tool masks the row under its own sessionId.
ExecuteTool(row, rnd) ==
    /\ analyzer.tools # <<>>
    /\ Canonical(rnd, 1)
    /\ ToolReturned(row, analyzer.tools[1],
                    MaskObjectCall(dictionaries, row, analyzer.tools[1], NewTraversal, rnd,
                                   analyzer.tools[1]))

\* Texts the model may answer the report generator with: the masked text the
\* last tool call returned, or a plain text.
ReportInputs == (IF last.op = "executeTool" THEN {last.output} ELSE {}) \cup {PlainText}

\* generateReport: the response is unmasked under the report generator's
\* sessionId.
GenerateReport(response) ==
    LET sid == analyzer.reportGenerator
        known == sid \in DOMAIN sessionMappings
        r == IF known THEN UnmaskText(sessionMappings[sid], response)
             ELSE [unmasked |-> response, unmaskCount |-> 0]
    IN  /\ last' = [NoCall EXCEPT !.op = "generateReport", !.sid = sid, !.input = response,
                                  !.output = r.unmasked, !.count = r.unmaskCount,
                                  !.known = known,
                                  !.of = IF last.op = "executeTool" /\ response = last.output
                                         THEN [sid |-> last.sid, input |-> last.input,
                                               events |-> <<>>]
                                         ELSE NoCall.of]
        /\ UNCHANGED <<dictionaries, lastIndex, analyzer, sessionMappings, created, running>>

NextAnalyzer ==
    \/ Initialize
    \/ \E id \in AnalyzerIds : NewSession(id)
    \/ \E row \in RowInputs, rnd \in RandomOutcomes : ExecuteTool(row, rnd)
    \/ \E response \in ReportInputs : GenerateReport(response)

SpecAnalyzer == InitAnalyzer /\ [][NextAnalyzer]_vars

\* ------------------------------------------------------------ properties

\* The names entries of reversible substitutions carry as their source.
ReversibleSources ==
    {DefaultRules[k].name : k \in {j \in 1..Len(DefaultRules) : DefaultRules[j].reversible}}
        \cup {"dictionary:" \o dictionaries[k].name : k \in 1..Len(dictionaries)}

\* The fixed literals of the non-reversible rules.
FixedLiterals ==
    {DefaultRules[k].replacement : k \in {j \in 1..Len(DefaultRules) : ~DefaultRules[j].reversible}}

FixedLiteralOf(ruleName) ==
    DefaultRules[CHOOSE k \in 1..Len(DefaultRules) : DefaultRules[k].name = ruleName].replacement

\* No non-reversible rule matches anywhere in the text.
OnlyReversibleSpans(text) ==
    \A k \in 1..Len(DefaultRules) :
        DefaultRules[k].reversible \/ FindMatch(DefaultRules[k].name, text, 1) = 0

\* The last call is unmask(s, m) where m is what the mask(s, t) call right
\* before it returned.
UnmaskedOwnMask == last.op = "unmask" /\ last.of.sid = last.sid

\* C1: round trip.  For every session s, whatever it already holds, and every
\* text t whose sensitive spans are matched only by reversible rules or
\* dictionary terms, unmask(s, mask(s, t).masked).unmasked equals t.
C1_RoundTrip ==
    (UnmaskedOwnMask /\ OnlyReversibleSpans(last.of.input)) => last.output = last.of.input

\* C2: irreversibility.  A substring of t that a non-reversible rule matched
\* in mask(s, t) does not occur in the text unmask(s, mask(s, t).masked)
\* returns.
C2_Irreversible ==
    UnmaskedOwnMask =>
        \A k \in 1..Len(last.of.events) :
            (~last.of.events[k].reversible
                /\ Contains(last.of.input, last.of.events[k].original))
            => ~Contains(last.output, last.of.events[k].original)

\* C3: no entry of any session has a non-reversible rule as its source or a
\* fixed literal as its token, and every match of a non-reversible rule in a
\* mask call was replaced by the fixed literal of that rule.
C3_NoEntryForNonReversible ==
    /\ \A s \in DOMAIN sessionMappings : \A k \in 1..Len(sessionMappings[s]) :
            /\ sessionMappings[s][k].rule \in ReversibleSources
            /\ sessionMappings[s][k].masked \notin FixedLiterals
    /\ last.op = "mask" =>
            \A k \in 1..Len(last.events) :
                ~last.events[k].reversible =>
                    /\ last.events[k].replacement = FixedLiteralOf(last.events[k].rule)
                    /\ \A e \in 1..Len(MappingsOf(last.sid)) :
                           MappingsOf(last.sid)[e].rule # last.events[k].rule

\* A mask call replaced a match of a non-reversible rule and left the session
\* with an entry of a reversible one.
C3_Witness ==
    /\ last.op = "mask"
    /\ \E k \in 1..Len(last.events) : ~last.events[k].reversible
    /\ Len(MappingsOf(last.sid)) > 0

\* The last call is unmask(b, m) where m is what the mask(a, t) call right
\* before it returned, for another session a.
UnmaskedOtherMask == last.op = "unmask" /\ last.of.sid # "" /\ last.of.sid # last.sid

\* The token the k-th substitution of that mask call put in, when it is a
\* reversible one that b's store does not hold and that occurs in m.
ForeignToken(k) ==
    /\ last.of.events[k].reversible
    /\ last.of.events[k].replacement \notin Tokens(MappingsOf(last.sid))
    /\ Contains(last.input, last.of.events[k].replacement)

C5_UnknownSessionUnchanged ==
    (last.op = "unmask" /\ ~last.known) => (last.output = last.input /\ last.count = 0)

\* unmask ran on a cleared session with a token that the clear deleted.
C5_Witness ==
    /\ last.op = "unmask"
    /\ ~last.known
    /\ last.input \in last.cleared

\* What a step that is a clearSession call, or a getSessionStats call right
\* after one on the same id, must satisfy.
ClearStep ==
    /\ last'.op = "clearSession" => last'.sid \notin DOMAIN sessionMappings'
    /\ (last'.op = "clearSession" /\ last'.sid \notin DOMAIN sessionMappings)
           => UNCHANGED <<dictionaries, sessionMappings, created>>
    /\ (last.op = "clearSession" /\ last'.op = "getSessionStats" /\ last'.sid = last.sid)
           => last'.stats = EmptyStats

\* C6: idempotent clear.  After clearSession(s) the session has no store and
\* getSessionStats(s) returns totalMappings 0 with empty byCategory and
\* byRule; clearSession(s) on an id without a store, cleared before or never
\* seen, returns and changes nothing.
C6_IdempotentClear == [][ClearStep]_vars

\* clearSession ran on an id without a store while another session had one.
C6_Witness ==
    /\ last.op = "clearSession"
    /\ ~last.known
    /\ DOMAIN sessionMappings # {}

\* The tokens the reversible substitutions of the last mask call put in.
IssuedTokens ==
    {last.events[k].replacement : k \in {j \in 1..Len(last.events) : last.events[j].reversible}}

\* C7 as stated: after clearSession(s) and a later mask(s, ...), totalMappings
\* counts only entries created after the clear and unmask(s, x) leaves every
\* token issued before the clear unreplaced.
C7_OldTokensUnreplaced ==
    /\ (last.op \in {"mask", "maskObject"} /\ last.cleared # {})
           => Len(MappingsOf(last.sid)) <= created[last.sid]
    /\ (last.op = "unmask" /\ last.input \in last.cleared)
           => (last.output = last.input /\ last.count = 0)

\* C7, amended: the first mask(s, ...) after clearSession(s) starts from an
\* empty store, so the store holds only entries of that call, no more than
\* the substitutions made since the clear; unmask(s, x) leaves a token issued
\* before the clear unreplaced unless the same token was issued again in s
\* after the clear.
C7_FreshStoreAfterClear ==
    /\ (last.op \in {"mask", "maskObject"} /\ last.cleared # {})
           => /\ Len(MappingsOf(last.sid)) <= created[last.sid]
              /\ last.op = "mask" => Tokens(MappingsOf(last.sid)) = IssuedTokens
    /\ (last.op = "unmask" /\ last.input \in last.cleared
            /\ last.input \notin Tokens(MappingsOf(last.sid)))
           => (last.output = last.input /\ last.count = 0)

\* A session was cleared and masked again, and unmask ran on a token that the
\* clear deleted and the new store does not hold.
C7_Witness ==
    /\ last.op = "unmask"
    /\ last.known
    /\ Len(MappingsOf(last.sid)) > 0
    /\ last.input \in last.cleared
    /\ last.input \notin Tokens(MappingsOf(last.sid))

RECURSIVE CountMatches(_, _, _)
\* The non-overlapping matches of a rule's pattern in text from pos on, found
\* left to right.
CountMatches(ruleName, text, pos) ==
    IF FindMatch(ruleName, text, pos) = 0 THEN 0
    ELSE 1 + CountMatches(ruleName, text,
                          PatternMatch(ruleName, text, FindMatch(ruleName, text, pos)))

\* The substitutions of the last mask call made by the given rule.
EventsOf(ruleName) == {k \in 1..Len(last.events) : last.events[k].rule = ruleName}

\* C8: count consistency.  maskCount of a mask call is the number of
\* substitutions the call made: the fixed-literal replacements plus the
\* tokens put in.  The first rule substitutes once per non-overlapping match
\* in the text passed in, and every fixed literal stands in the masked text
\* once per match of its rule, besides the times it stood in the text passed
\* in.
C8_CountConsistency ==
    last.op = "mask" =>
        /\ last.count = Len(last.events)
        /\ last.count = Cardinality({k \in 1..Len(last.events) : ~last.events[k].reversible})
                          + Cardinality({k \in 1..Len(last.events) : last.events[k].reversible})
        /\ Cardinality(EventsOf(DefaultRules[1].name))
               = CountMatches(DefaultRules[1].name, last.input, 1)
        /\ \A k \in 1..Len(DefaultRules) :
               ~DefaultRules[k].reversible =>
                   CountLit(last.output, 1, DefaultRules[k].replacement)
                       = CountLit(last.input, 1, DefaultRules[k].replacement)
                             + Cardinality(EventsOf(DefaultRules[k].name))

\* A mask call made a token substitution and a fixed-literal one.
C8_Witness ==
    /\ last.op = "mask"
    /\ last.count >= 2
    /\ \E k \in 1..Len(last.events) : last.events[k].reversible
    /\ \E k \in 1..Len(last.events) : ~last.events[k].reversible

\* C9: every reversible substitution has an entry of its own that stays until
\* clearSession: a session holds as many entries as reversible substitutions
\* were made on it since its last clear.
C9_EntryPerSubstitution ==
    \A s \in SessionIds : Len(MappingsOf(s)) = created[s]

\* The entries of a store with the given category, and with the given source.
WithCategory(mappings, category) ==
    {i \in 1..Len(mappings) : mappings[i].category = category}

WithRule(mappings, rule) == {i \in 1..Len(mappings) : mappings[i].rule = rule}

\* What getSessionStats must return for a store.
StatsAgree(stats, mappings) ==
    /\ stats.totalMappings = Len(mappings)
    /\ DOMAIN stats.byCategory = {mappings[i].category : i \in 1..Len(mappings)}
    /\ DOMAIN stats.byRule = {mappings[i].rule : i \in 1..Len(mappings)}
    /\ \A c \in DOMAIN stats.byCategory :
           stats.byCategory[c] = Cardinality(WithCategory(mappings, c))
    /\ \A r \in DOMAIN stats.byRule :
           stats.byRule[r] = Cardinality(WithRule(mappings, r))
    /\ SumOver(stats.byCategory, DOMAIN stats.byCategory) = stats.totalMappings
    /\ SumOver(stats.byRule, DOMAIN stats.byRule) = stats.totalMappings

\* C10: getSessionStats(s).totalMappings is the number of entries of s's
\* store, each byCategory and byRule count is the number of entries with that
\* category and source, the counts of either sum to totalMappings, and a
\* session without a store yields totalMappings 0 with empty maps.
C10_StatsAggregate ==
    last.op = "getSessionStats" =>
        IF last.known THEN StatsAgree(last.stats, MappingsOf(last.sid))
        ELSE /\ last.stats.totalMappings = 0
             /\ DOMAIN last.stats.byCategory = {}
             /\ DOMAIN last.stats.byRule = {}

\* getSessionStats ran on a session with two entries of one rule.
C10_Witness ==
    /\ last.op = "getSessionStats"
    /\ last.stats.totalMappings = 2
    /\ \E r \in DOMAIN last.stats.byRule : last.stats.byRule[r] = 2

RECURSIVE SameShape(_, _)
\* out has the structure of in: the same keys in the same order at a map, the
\* same length and order at a list, a boolean or null as it was, and a string
\* or number leaf in the place of a string or number leaf.
SameShape(in, out) ==
    CASE in.kind = "object" ->
            /\ out.kind = "object"
            /\ Len(out.elems) = Len(in.elems)
            /\ \A k \in 1..Len(in.elems) :
                   /\ out.elems[k].key = in.elems[k].key
                   /\ SameShape(in.elems[k].value, out.elems[k].value)
      [] in.kind = "array" ->
            /\ out.kind = "array"
            /\ Len(out.elems) = Len(in.elems)
            /\ \A k \in 1..Len(in.elems) : SameShape(in.elems[k], out.elems[k])
      [] in.kind = "string" -> out.kind = "string"
      [] in.kind = "number" -> out.kind \in {"number", "string"}
      [] OTHER -> out = in

\* C11: structural preservation.  What maskObject returns has the key set of
\* its input at every map level and the length and element order of every
\* list; booleans and null come back unchanged and only string and number
\* leaves may differ; the object passed in is the one the caller had.
C11_StructurePreserved ==
    last.op = "maskObject" =>
        /\ SameShape(last.inObj, last.outObj)
        /\ last.inObj \in ObjectInputs

\* C12: one session id per traversal.  Every mask call of a maskObject
\* traversal, through objects and arrays at any depth, is made under one
\* session id: the id the caller passed, or else the id generateSessionId()
\* returned, which is called once when no id was passed and never otherwise.
C12_OneSessionId ==
    last.op = "maskObject" =>
        /\ \A k \in 1..Len(last.sids) : last.sids[k] = last.sid
        /\ last.sessionId # Undefined => last.sid = last.sessionId /\ last.generated = 0
        /\ last.sessionId = Undefined => last.sid \in GeneratedIds /\ last.generated = 1

\* A traversal without a session id from the caller that made mask calls at
\* the top level, inside an array and inside a nested object.
C12_Witness ==
    /\ last.op = "maskObject"
    /\ last.sessionId = Undefined
    /\ Len(last.sids) = 4
    /\ last.inObj.elems[3].value.kind = "array"
    /\ last.inObj.elems[3].value.elems[3].kind = "object"

\* Numbers that occur as leaves of ObjectInputs.
NumberInputs == {42, 81234567}

\* What mask returns for the formatted number leaves.
maskedNumberOf ==
    [dicts \in DictionaryConfigs, num \in NumberInputs |->
        MaskText(dicts, <<>>, NumberToString(num),
                 CHOOSE rnd \in RandomOutcomes : Canonical(rnd, 0)).masked]

NumberLeafOk(in, out, masked) ==
    IF masked = NumberToString(in.num) THEN out = in
    ELSE out = StringValue(masked) /\ out.text # NumberToString(in.num)

RECURSIVE NumberLeavesOk(_, _)
\* The number leaves of in, each against the value out holds in its place.
NumberLeavesOk(in, out) ==
    CASE in.kind = "object" ->
            \A k \in 1..Len(in.elems) : \A j \in 1..Len(out.elems) :
                out.elems[j].key = in.elems[k].key =>
                    NumberLeavesOk(in.elems[k].value, out.elems[j].value)
      [] in.kind = "array" ->
            /\ Len(out.elems) = Len(in.elems)
            /\ \A k \in 1..Len(in.elems) : NumberLeavesOk(in.elems[k], out.elems[k])
      [] in.kind = "number" ->
            /\ in.num \in NumberInputs
            /\ NumberLeafOk(in, out, maskedNumberOf[dictionaries, in.num])
      [] OTHER -> TRUE

\* C13: number leaves.  A number leaf v of the object passed to maskObject
\* comes back as v itself, a number, when mask leaves v.toString() as it is,
\* and as the string mask returned otherwise; it never comes back as the
\* string v.toString().
C13_NumberLeaf ==
    last.op = "maskObject" => NumberLeavesOk(last.inObj, last.outObj)

\* A traversal that returned one number leaf as the number it was and another
\* as a masked string.
C13_Witness ==
    /\ last.op = "maskObject"
    /\ Len(last.inObj.elems) = 4
    /\ last.inObj.elems[1].value = NumberValue(42)
    /\ last.outObj.elems[1].value = NumberValue(42)
    /\ last.inObj.elems[3].value.elems[3].elems[1].value.kind = "number"
    /\ last.outObj.elems[3].value.elems[3].elems[1].value.kind = "string"

\* The step taken is a step of the call on the stack: its next mappings.set,
\* or its return once all are made.
OwnStep ==
    \/ running' = [running EXCEPT !.done = @ + 1] /\ running.done < Len(running.made)
    \/ running' = Idle /\ running.done = Len(running.made) /\ last' = running.result

\* Every entry of every store has all its fields set.
CompleteEntries ==
    \A s \in DOMAIN sessionMappings : \A k \in 1..Len(sessionMappings[s]) :
        /\ DOMAIN sessionMappings[s][k] = {"original", "masked", "category", "rule", "createdAt"}
        /\ Len(sessionMappings[s][k].original) > 0
        /\ Len(sessionMappings[s][k].masked) > 0
        /\ sessionMappings[s][k].category # ""
        /\ sessionMappings[s][k].rule # ""
        /\ sessionMappings[s][k].createdAt = NewDate

\* C14: calls of concurrent tasks are serialized.  While a mask or maskObject
\* call has begun and not returned, every step is a step of that call, so no
\* unmask, clearSession, getSessionStats, mask or maskObject call of another
\* task sees the store with only part of its inserts or clears it under the
\* call; and every entry of every store has token, original, category, rule
\* and createdAt set.
C14_Serialized ==
    /\ [][running.op # "none" => OwnStep]_vars
    /\ []CompleteEntries

\* A maskObject or mask call that has made one of its two inserts.
C14_Witness ==
    /\ running.op # "none"
    /\ running.done = 1
    /\ Len(running.made) = 2
    /\ Len(sessionMappings[running.sid]) = 1

\* Characters with a meaning of their own in a regular expression or in the
\* replacement string of String.prototype.replace.
SpecialChars == RegexSpecial \cup {"$"}

HasSpecial(text) == \E k \in 1..Len(text) : text[k] \in SpecialChars

\* C15: round trip with special characters.  When an original stored by
\* mask(s, t) holds characters that are special in a regular expression or in
\* a replacement string ($, ., [, ], \, $& or $$), t being made of reversible
\* spans only, unmask(s, mask(s, t).masked).unmasked still equals t: the
\* token is found as a literal and the original is inserted as it is.
C15_SpecialCharsRoundTrip ==
    ( /\ UnmaskedOwnMask
      /\ OnlyReversibleSpans(last.of.input)
      /\ \E k \in 1..Len(last.of.events) : HasSpecial(last.of.events[k].original) )
        => last.output = last.of.input

\* C16: unmask retried.  For every session s and text x,
\* unmask(s, unmask(s, x).unmasked) returns the text unmask(s, x) returned,
\* with unmaskCount 0.
C16_UnmaskIdempotent ==
    (last.op = "unmask" /\ last.again) => (last.output = last.input /\ last.count = 0)

\* The tokens the reversible ones among the substitutions put in.
TokensOf(events) ==
    {events[k].replacement : k \in {j \in 1..Len(events) : events[j].reversible}}

\* Every substitution was a reversible one, the tokens put in differ from
\* each other and each stands in the text as it was issued.
TokensIntact(events, text) ==
    /\ \A k \in 1..Len(events) : events[k].reversible /\ Contains(text, events[k].replacement)
    /\ Cardinality(TokensOf(events)) = Len(events)

\* The last call is unmask(s, m2), m2 being what mask(s, m1) returned right
\* before and m1 what the mask(s, t) before that returned with its tokens
\* intact.
UnmaskedRemasked ==
    /\ last.op = "unmask"
    /\ last.remask.is
    /\ last.of.sid = last.sid
    /\ OnlyReversibleSpans(last.remask.text)
    /\ TokensIntact(last.remask.events, last.of.input)

\* C17: re-masking is tolerated.  For a text t made of reversible spans, with
\* m1 = mask(s, t).masked and m2 = mask(s, m1).masked,
\* unmask(s, m2).unmasked equals t.
C17_RemaskTolerated ==
    UnmaskedRemasked => last.output = last.remask.text

\* The store of the session holds the entry of every reversible substitution
\* among events.
EntriesRemain(events, mappings) ==
    \A k \in 1..Len(events) :
        events[k].reversible =>
            \E i \in 1..Len(mappings) :
                /\ mappings[i].masked = events[k].replacement
                /\ mappings[i].original = events[k].original

\* C18: mask retried.  When mask(s, t) is called again with the same t, the
\* tokens of the second masked text are disjoint from those of the first, the
\* entries of the first call remain in the store, and each of the two masked
\* texts unmasks to t.
C18_RetryNewTokens ==
    /\ (last.op = "mask" /\ last.retry.is) =>
           /\ TokensOf(last.events) \cap TokensOf(last.retry.events) = {}
           /\ EntriesRemain(last.retry.events, MappingsOf(last.sid))
    /\ (/\ last.op = "unmask" /\ last.retry.is /\ last.of.sid = last.sid
        /\ OnlyReversibleSpans(last.of.input)
        /\ TokensIntact(last.of.events, last.input))
           => last.output = last.of.input

\* word stands in query as a whole word in any letter case: the characters
\* around it, if any, are not word characters.
WholeWord(query, word) ==
    \E i \in 1..Len(query) :
        /\ i + Len(word) - 1 <= Len(query)
        /\ \A k \in 1..Len(word) : ToLower(query[i + k - 1]) = ToLower(word[k])
        /\ At(query, i - 1) \notin WordChar
        /\ At(query, i + Len(word)) \notin WordChar

InSeq(x, seq) == \E k \in 1..Len(seq) : seq[k] = x

\* C19: QueryValidator.validate.  A query that holds a forbidden operation
\* as a whole word, in any letter case, comes back with valid false and the
\* error that names the operation; valid is true exactly when no error was
\* recorded, so warnings (SELECT *, no partition filter, no LIMIT) alone leave
\* the query valid.
C19_ForbiddenInvalid ==
    last.op = "validate" =>
        /\ \A k \in 1..Len(ForbiddenOperationsOf(last.config)) :
               WholeWord(last.query, ForbiddenOperationsOf(last.config)[k]) =>
                   /\ ~last.valid
                   /\ InSeq(ForbiddenPrefix \o ForbiddenOperationsOf(last.config)[k],
                            last.errors)
        /\ last.valid <=> Len(last.errors) = 0
        /\ (Len(last.errors) = 0 /\ Len(last.warnings) > 0) => last.valid

\* A query with a forbidden operation in lower case came back invalid, or a
\* query with all three warnings and no error came back valid.
C19_Witness ==
    /\ last.op = "validate"
    /\ \/ /\ WholeWord(last.query, DefaultForbiddenOperations[3])
          /\ ~InSeq(DefaultForbiddenOperations[3], <<SubSeq(last.query, 1, 6)>>)
          /\ ~last.valid
       \/ /\ last.valid
          /\ Len(last.warnings) = 3

\* The tier whose range holds the complexity.
TierOfRange(complexity) ==
    IF complexity < Score(30) THEN "simple"
    ELSE IF complexity < Score(60) THEN "moderate"
    ELSE IF complexity < Score(80) THEN "complex"
    ELSE "expert"

\* C20: ModelRouter.route with the default tiers.  The complexity returned
\* lies in [0, 1] and the tier returned is the one whose range holds it:
\* simple below 0.3, moderate in [0.3, 0.6), complex in [0.6, 0.8), expert in
\* [0.8, 1.0]; the tier being this function of the complexity, a higher
\* complexity never yields a lower tier.
C20_TierOfComplexity ==
    last.op = "route" =>
        /\ last.result.complexity >= 0
        /\ last.result.complexity <= Score(100)
        /\ last.result.tier = TierOfRange(last.result.complexity)

\* C21: rule order within one mask call.  The rules are applied in declared
\* order to the current text, and once a rule has replaced a span no later
\* rule matches inside the replacement: every token a rule put in stands
\* intact in the masked text the call returns, whatever its hex suffix.
C21_RuleTokensIntact ==
    last.op = "mask" =>
        \A k \in 1..Len(last.events) :
            (last.events[k].reversible /\ last.events[k].rule \in RuleNames)
                => Contains(last.output, last.events[k].replacement)

\* The place of a pattern rule in the declared order; the dictionaries come
\* behind every rule.
RuleIndex(ruleName) ==
    IF ruleName \in RuleNames
    THEN CHOOSE k \in 1..Len(DefaultRules) : DefaultRules[k].name = ruleName
    ELSE Len(DefaultRules) + 1

\* No rule applied after the one that made the substitution matches in the
\* text it put in: the replacement stands in the text the rules leave.
IntactAfterRules(event) ==
    \A j \in 1..Len(DefaultRules) :
        j > RuleIndex(event.rule) => FindMatch(DefaultRules[j].name, event.replacement, 1) = 0

\* C22: dictionaries after rules.  Dictionary terms are applied only after all
\* rules, and no dictionary substitution replaces text inside a token or a
\* fixed literal put in earlier in the same mask call: what a rule or an
\* earlier term put in, and the rules left intact, stands in the masked text
\* the call returns.
C22_DictionaryKeepsTokens ==
    last.op = "mask" =>
        \A k \in 1..Len(last.events) :
            IntactAfterRules(last.events[k])
                => Contains(last.output, last.events[k].replacement)

RECURSIVE Occurrences(_, _, _)
\* The occurrences in text of the tokens of the entries from the k-th on,
\* each token counted where it stands in text.
Occurrences(mappings, k, text) ==
    IF k > Len(mappings) THEN 0
    ELSE CountLit(text, 1, mappings[k].masked) + Occurrences(mappings, k + 1, text)

\* C23: unmaskCount.  unmask(s, x).unmaskCount is the number of occurrences in
\* the input x of the tokens stored in session s, each occurrence counted
\* once; a token of s that does not occur in x adds nothing to the count and
\* changes nothing in the text.
C23_UnmaskCountsOccurrences ==
    last.op = "unmask" =>
        /\ last.count = Occurrences(MappingsOf(last.sid), 1, last.input)
        /\ Occurrences(MappingsOf(last.sid), 1, last.input) = 0 => last.output = last.input

\* The spans a mask call matched: the rule and the text matched, in the order
\* of the substitutions.
Spans(events) ==
    [k \in 1..Len(events) |-> [rule |-> events[k].rule, original |-> events[k].original]]

\* randomBytes yielding one suffix at every draw.
SameSuffix == [k \in 1..MaxRandom |-> <<"a", "1", "b", "2", "c", "3", "d", "4">>]

\* mask(s, t) as the first call on a masker made with the same configuration.
FirstCall(data) == MaskText(dictionaries, <<>>, data, SameSuffix)

\* C24: matching carries no state between calls.  For the fixed rule set, the
\* spans matched in a text t, and with them maskCount, are those of mask(s, t)
\* as a first call, whatever calls preceded this one and whatever the session
\* store holds; the patterns are left as a first call finds them.
C24_MatchingStateless ==
    /\ \A name \in RuleNames : lastIndex[name] = 0
    /\ last.op = "mask" =>
           /\ Spans(last.events) = Spans(FirstCall(last.input).events)
           /\ last.count = FirstCall(last.input).maskCount

\* A step that is a mask(s, "") call leaves every store as it was, but for
\* the store of s, which exists afterwards.
EmptyTextStep ==
    (last'.op = "mask" /\ last'.input = <<>>) =>
        /\ DOMAIN sessionMappings' = DOMAIN sessionMappings \cup {last'.sid}
        /\ \A s \in DOMAIN sessionMappings : sessionMappings'[s] = sessionMappings[s]
        /\ last'.sid \notin DOMAIN sessionMappings => sessionMappings'[last'.sid] = <<>>

\* An unmask call right behind a mask call on the same id finds the session.
UnmaskBehindMask ==
    (last.op = "mask" /\ last'.op = "unmask" /\ last'.sid = last.sid) => last'.known

\* C25: empty text.  mask(s, "") returns masked "" with maskCount 0 and
\* inserts no entry, yet a store exists for s afterwards: mask on an unseen
\* id always creates the session, even when nothing matches, so a following
\* unmask(s, x) takes the path of a known session.
C25_EmptyTextCreatesSession ==
    /\ [](last.op = "mask" => last.sid \in DOMAIN sessionMappings)
    /\ []((last.op = "mask" /\ last.input = <<>>) =>
              (last.output = <<>> /\ last.count = 0 /\ last.events = <<>>))
    /\ [][EmptyTextStep /\ UnmaskBehindMask]_vars

\* mask(s, "") ran on an unseen id and left an empty store for it.
C25_Witness ==
    /\ last.op = "mask"
    /\ last.input = <<>>
    /\ ~last.known
    /\ last.sid \in DOMAIN sessionMappings
    /\ sessionMappings[last.sid] = <<>>

\* C26: one session id in the analyzer.  After any sequence of initialize(),
\* newSession(), tool executions and report generation, the session id under
\* which the agent tools mask rows is the one under which the report
\* generator unmasks and the current one: a report made of what a tool
\* returned comes back with the originals, and a tool call does not mask
\* under a session that newSession() has left.
C26_ToolsAndReportShareSession ==
    /\ analyzer.tools # <<>> => analyzer.tools[1] = analyzer.reportGenerator
    /\ last.op = "executeTool" => last.sid = analyzer.currentSessionId
    /\ (last.op = "generateReport" /\ last.of.sid # "") => last.output = last.of.input

\* C27: maskObject without a session id.  Two top-level maskObject calls made
\* without a sessionId never record their mappings in the same session, nor
\* in a session created under a caller-supplied id: each such call generates
\* one id, finds no session under it and leaves one new session that holds
\* all mappings of its traversal.
C27_OwnSessionPerCall ==
    (last.op = "maskObject" /\ last.sessionId = Undefined) =>
        /\ last.generated = 1
        /\ \A k \in 1..Len(last.sids) : last.sids[k] = last.sid
        /\ ~last.known
        /\ last.sid \in DOMAIN sessionMappings

\* The sessions other than the one the call of this step was made on.
OtherSessions == (DOMAIN sessionMappings \cup DOMAIN sessionMappings') \ {last'.sid}

\* C28: frame of the writing calls.  mask, maskObject and clearSession on
\* session a leave the mapping entries of every other session b unchanged:
\* the set of sessions other than a and all their entries are the same before
\* and after the call.
C28_OtherSessionsUnchanged ==
    [][last'.op \in {"mask", "maskObject", "clearSession"} =>
          \A b \in OtherSessions :
              /\ b \in DOMAIN sessionMappings
              /\ b \in DOMAIN sessionMappings'
              /\ sessionMappings'[b] = sessionMappings[b]]_vars

\* A mask, maskObject or clearSession call returned while another session
\* held entries.
C28_Witness ==
    /\ last.op \in {"mask", "maskObject", "clearSession"}
    /\ \E b \in DOMAIN sessionMappings \ {last.sid} : Len(sessionMappings[b]) > 0

\* C29: unmask and getSessionStats only read.  A step of either leaves every
\* session as it was: no session appears for an id without a store, and no
\* entry of any store is added, removed or altered.  An unmask call given the
\* text of the unmask call right before it, on the same session, returns the
\* same text and the same count.
SameUnmask ==
    /\ last.op = "unmask" /\ last'.op = "unmask"
    /\ last'.sid = last.sid /\ last'.input = last.input

C29_ReadsOnly ==
    [][/\ last'.op \in {"unmask", "getSessionStats"} => sessionMappings' = sessionMappings
       /\ SameUnmask => (last'.output = last.output /\ last'.count = last.count)]_vars

C29_Witness ==
    /\ last.op = "unmask" /\ last.known /\ last.count > 0
    /\ last.output # last.input
    /\ Len(MappingsOf(last.sid)) > 0

\* ----------------------------------------- CoordinatorAgent.planAnalysis

\* Dates are held by their time value, counted in hours; every start and end
\* given here is a date that parses.
HoursPerDay == 24

\* calculateDays(start, end): the distance of the two dates in days, rounded
\* up.
CalculateDays(start, end) ==
    LET diffTime == IF end >= start THEN end - start ELSE start - end
    IN  (diffTime + (HoursPerDay - 1)) \div HoursPerDay

DefaultDataSources == <<"bigquery", "ga4">>

\* The task planAnalysis builds from a request.
TaskOf(request) ==
    [query |-> request.query,
     dataSources |-> IF request.dataSources.defined THEN request.dataSources.value
                     ELSE DefaultDataSources,
     dateRange |-> IF request.dateRange.defined
                   THEN Given(CalculateDays(request.dateRange.value.start,
                                            request.dateRange.value.end))
                   ELSE Absent,
     aggregations |-> AbsentList,
     requiresCrossAnalysis |-> FALSE,
     requiresPrediction |-> FALSE,
     insightDepth |-> Absent]

NoSteps == [steps |-> <<>>, stepId |-> 1]

\* steps.push({ id: stepId++, ..., dependencies }) with dependencies already
\* computed.
PushStep(acc, description, agent, dependencies) ==
    [steps |-> Append(acc.steps, [id |-> acc.stepId, description |-> description,
                                  agent |-> agent, dependencies |-> dependencies,
                                  status |-> "pending"]),
     stepId |-> acc.stepId + 1]

\* steps.push({ id: stepId++, ..., dependencies: [stepId - 1] }): the
\* properties of the literal are evaluated in order, so stepId - 1 is read
\* after stepId++ has stored the incremented value.
PushAfterPrevious(acc, description, agent) ==
    [steps |-> Append(acc.steps, [id |-> acc.stepId, description |-> description,
                                  agent |-> agent,
                                  dependencies |-> <<(acc.stepId + 1) - 1>>,
                                  status |-> "pending"]),
     stepId |-> acc.stepId + 1]

\* Step 1, pushed when the complexity is 0.3 or more.
ExploreStep(acc, complexity) ==
    IF complexity >= Score(30)
    THEN PushStep(acc, "Explore available data and schema", "query-generator", <<>>)
    ELSE acc

\* Step 2; its dependencies are computed on the steps pushed so far.
FetchStep(acc) ==
    PushStep(acc, "Fetch required data from sources", "data-fetcher",
             IF Len(acc.steps) > 0 THEN <<1>> ELSE <<>>)

\* Step 3.
AnalysisStep(acc) == PushAfterPrevious(acc, "Analyze data and detect patterns", "analyst")

\* Step 4, pushed when the complexity is 0.6 or more.
InsightStep(acc, complexity) ==
    IF complexity >= Score(60)
    THEN PushAfterPrevious(acc, "Extract deep insights and recommendations",
                           "insight-extractor")
    ELSE acc

\* Step 5.
ReportStep(acc) == PushAfterPrevious(acc, "Generate final report", "report-generator")

\* The steps of a plan for a complexity.
StepsFor(complexity) ==
    ReportStep(InsightStep(AnalysisStep(FetchStep(ExploreStep(NoSteps, complexity))),
                           complexity)).steps

RECURSIVE AgentsFrom(_, _, _)
\* [...new Set(steps.map((s) => s.agent))]: the agents in the order of their
\* first step.
AgentsFrom(steps, k, acc) ==
    IF k > Len(steps) THEN acc
    ELSE AgentsFrom(steps, k + 1,
                    IF \E i \in 1..Len(acc) : acc[i] = steps[k].agent THEN acc
                    ELSE Append(acc, steps[k].agent))

\* planAnalysis(request) of a coordinator whose router returned routingResult
\* for task.
PlanOf(task, routingResult) ==
    [steps |-> StepsFor(routingResult.complexity),
     estimatedComplexity |-> routingResult.complexity,
     requiredAgents |-> AgentsFrom(StepsFor(routingResult.complexity), 1, <<>>),
     dataSources |-> task.dataSources]

RequestDataSources == {AbsentList} \cup {Given(dataSources) : dataSources \in DataSourceInputs}

\* Time values of the dates of the requests, in hours.
DateInputs == {0, 12, 168, 8760}

\* A request without dateRange.
AbsentRange == [defined |-> FALSE, value |-> [start |-> 0, end |-> 0]]

RequestDateRanges ==
    {AbsentRange} \cup {Given([start |-> start, end |-> end]) : start \in DateInputs, end \in DateInputs}

\* The requests passed to planAnalysis.
RequestInputs ==
    {[query |-> query, dataSources |-> dataSources, dateRange |-> dateRange] :
        query \in RouteQueries, dataSources \in RequestDataSources,
        dateRange \in RequestDateRanges}

\* A coordinator made with the router of createModelRouter(enabled), and the
\* request it is about to be given.
InitPlan ==
    /\ dictionaries = <<>>
    /\ sessionMappings = [s \in {} |-> <<>>]
    /\ last \in {[op |-> "createCoordinator", enabled |-> enabled, request |-> request] :
                    enabled \in BOOLEAN, request \in RequestInputs}
    /\ created = [s \in SessionIds |-> 0]
    /\ running = Idle
    /\ lastIndex = NewLastIndex
    /\ analyzer = NoAnalyzer

\* planAnalysis(last.request).
PlanAnalysis ==
    /\ last.op = "createCoordinator"
    /\ last' = [op |-> "planAnalysis", enabled |-> last.enabled, request |-> last.request,
                plan |-> PlanOf(TaskOf(last.request),
                                RouteResult(last.enabled, DefaultTiers, TaskOf(last.request),
                                            keywordHitsOf[last.request.query],
                                            DefaultEstimatedTokens))]
    /\ UNCHANGED <<dictionaries, lastIndex, analyzer, sessionMappings, created, running>>

NextPlan == PlanAnalysis

SpecPlan == InitPlan /\ [][NextPlan]_vars

\* C30: plan steps in order.  In every plan planAnalysis returns the step ids
\* are 1..n in the order of the list, and every dependency of a step is the id
\* of a step strictly before it: no step depends on itself or on a later step.
C30_StepsInOrder ==
    last.op = "planAnalysis" =>
        \A k \in 1..Len(last.plan.steps) :
            /\ last.plan.steps[k].id = k
            /\ \A i \in 1..Len(last.plan.steps[k].dependencies) :
                   last.plan.steps[k].dependencies[i] < last.plan.steps[k].id

====
